---- MODULE Spec2Model ----
(***************************************************************************)
(* Prod Trac (prodtrac.py): the per-port scan dispatcher, its handlers,    *)
(* the record store they drive, worker pairing and the per-port display    *)
(* timer, as a state machine.                                              *)
(***************************************************************************)
EXTENDS Integers, Sequences, FiniteSets, TLC

(***************************************************************************)
(* Bounds of the model.                                                    *)
(***************************************************************************)
MaxScans == 3
MaxRecords == 3
MaxPairScans == 4
MaxTimerOps == 3
MaxDisplayScans == 3
MaxShutdownScans == 2
MaxRetryArg == 6
MaxStream == 4
MaxChunk == 2
MaxReadScans == 2
MaxFallbackScans == 4
MaxReadErrors == 2
MaxLockScans == 3
MaxFactoryFailures == 6
MaxPortScans == 3

(***************************************************************************)
(* Program constants.                                                      *)
(***************************************************************************)
PAIR_WINDOW_SECONDS == 5
RECENT_WORKERS_KEPT == 3
FUNCTIONAL_QR_MAX == 32
QR_CD_MAX == 400

STATUS_WORKING == "WORKING"
STATUS_WAITING == "WAITING"
STATUS_ENDED == "ENDED"
STATUS_RETRY == "RETRY"

END_QR == "END*END*END"

\* Typed nulls: Python None for a line, a time, a worker/process code, a label.
NoLine == ""
NoTime == -1
NoCode == <<>>
NoLabel == ""

Ports == {"p1", "p2"}

(***************************************************************************)
(* Scan payloads.  A payload is named by a string; Text gives its          *)
(* characters, which is what the classifier and the extractor read.        *)
(***************************************************************************)
Digits == {"0", "1", "2", "3", "4", "5", "6", "7", "8", "9"}
UpperAlnum == Digits \cup {"A", "B", "C", "D", "E", "F", "G", "H", "I", "J", "K", "L", "M",
                           "N", "O", "P", "Q", "R", "S", "T", "U", "V", "W", "X", "Y", "Z"}

DigitVal(c) ==
    CASE c = "0" -> 0 [] c = "1" -> 1 [] c = "2" -> 2 [] c = "3" -> 3 [] c = "4" -> 4
      [] c = "5" -> 5 [] c = "6" -> 6 [] c = "7" -> 7 [] c = "8" -> 8 [] c = "9" -> 9

\* An instruction code of n characters: tag first, production date d (6 characters)
\* at offset 52, "0" elsewhere.
InstructionText(tag, d, n) ==
    [i \in 1..n |-> IF i = 1 THEN tag ELSE IF i \in 53..58 THEN d[i - 52] ELSE "0"]

GoodDate == <<"2", "5", "1", "0", "1", "0">>
BadDate == <<"2", "5", "0", "2", "3", "0">>

Text(line) ==
    CASE line = "END*END*END" -> <<"E", "N", "D", "*", "E", "N", "D", "*", "E", "N", "D">>
      [] line = "X" -> InstructionText("X", GoodDate, 259)
      [] line = "Y" -> InstructionText("Y", GoodDate, 259)
      [] line = "Z" -> InstructionText("Z", GoodDate, 400)
      [] line = "S" -> InstructionText("S", GoodDate, 258)
      [] line = "L" -> InstructionText("L", GoodDate, 401)
      [] line = "D" -> InstructionText("D", BadDate, 259)
      [] line = "rework" -> <<"r", "e", "w", "o", "r", "k">>
      [] line = "rew_process" -> <<"r", "e", "w", "_", "p", "r", "o", "c", "e", "s", "s">>
      [] line = "PA001" -> <<"P", "A", "0", "0", "1">>
      [] line = "PB002" -> <<"P", "B", "0", "0", "2">>
      [] line = "Pa001" -> <<"P", "a", "0", "0", "1">>
      [] line = "WCD1" -> <<"W", "C", "D", "1">>
      [] line = "WCD2" -> <<"W", "C", "D", "2">>
      [] line = "WCD3" -> <<"W", "C", "D", "3">>
      [] line = "WCD" -> <<"W", "C", "D">>
      [] line = "ID:A01-F1" -> <<"I", "D", ":", "A", "0", "1", "-", "F", "1">>
      [] line = "ID:B02" -> <<"I", "D", ":", "B", "0", "2">>
      [] line = "??" -> <<"?", "?">>

AllLines == {"END*END*END", "X", "Y", "Z", "S", "L", "D", "rework", "rew_process", "PA001",
             "PB002", "Pa001", "WCD1", "WCD2", "WCD3", "WCD", "ID:A01-F1", "ID:B02", "??"}

\* status_mapping: the status/rework table (keys only are matched by the dispatcher).
status_mapping ==
    [k \in {"rew_own_fix", "rew_material", "rew_process", "rew_equipm", "rework"} |->
        CASE k = "rew_own_fix" -> "tenaoshi"
          [] k = "rew_material" -> "zairyo-furyo"
          [] k = "rew_process" -> "kako-furyo"
          [] k = "rew_equipm" -> "setsubi-furyo"
          [] k = "rework" -> "temodori-tenaoshi"]

\* re.match(r"^P[A-Z0-9]{4}$", qr_cd)
IsProcessCode(t) ==
    /\ Len(t) = 5
    /\ t[1] = "P"
    /\ \A i \in 2..5 : t[i] \in UpperAlnum

\* re.match(r"^WCD(\d+)$", qr_cd)
IsWorkerCode(t) ==
    /\ Len(t) >= 4
    /\ t[1] = "W" /\ t[2] = "C" /\ t[3] = "D"
    /\ \A i \in 4..Len(t) : t[i] \in Digits

\* m.group(1): the digits after "WCD"
WorkerOf(t) == SubSeq(t, 4, Len(t))

\* qr_cd.startswith("ID:")
IsIndirectCode(t) ==
    /\ Len(t) >= 3
    /\ t[1] = "I" /\ t[2] = "D" /\ t[3] = ":"

(***************************************************************************)
(* Field Extractor.                                                        *)
(***************************************************************************)
extract_field_StrictlyLonger(qr_code, start, length) ==
    IF Len(qr_code) > start + length
    THEN [some |-> TRUE, val |-> SubSeq(qr_code, start + 1, start + length)]
    ELSE [some |-> FALSE, val |-> <<>>]

\* extract_field: the substring [start, start+length) or None when the code is short.
extract_field(qr_code, start, length) ==
    IF Len(qr_code) >= start + length
    THEN [some |-> TRUE, val |-> SubSeq(qr_code, start + 1, start + length)]
    ELSE [some |-> FALSE, val |-> <<>>]

FieldNames ==
    <<"seisan_tehai_no", "seisan_tehai_sub_no", "juchu_no", "check_no", "daisu_no",
      "kyoten_cd", "seisakusho_fuka_cd", "seisakusho_mae_cd", "seisakusho_ato_cd",
      "shohingun_cd", "seisanbi", "seisan_check_sub_no", "shukkabi", "shukka_basho",
      "hontai_kbn", "hinmei", "width", "height", "honseki_cd", "model_cd", "db_bunrui_cd">>

\* field_mappings: per field the list of (start, length) ranges.
field_mappings(key) ==
    CASE key = "seisan_tehai_no" -> <<<<0, 12>>>>
      [] key = "seisan_tehai_sub_no" -> <<<<12, 3>>>>
      [] key = "juchu_no" -> <<<<81, 11>>>>
      [] key = "check_no" -> <<<<45, 5>>, <<20, 6>>>>
      [] key = "daisu_no" -> <<<<27, 7>>>>
      [] key = "kyoten_cd" -> <<<<39, 6>>>>
      [] key = "seisakusho_fuka_cd" -> <<<<45, 6>>>>
      [] key = "seisakusho_mae_cd" -> <<<<69, 6>>>>
      [] key = "seisakusho_ato_cd" -> <<<<45, 6>>>>
      [] key = "shohingun_cd" -> <<<<51, 1>>>>
      [] key = "seisanbi" -> <<<<52, 6>>>>
      [] key = "seisan_check_sub_no" -> <<<<58, 3>>>>
      [] key = "shukkabi" -> <<<<61, 6>>>>
      [] key = "shukka_basho" -> <<<<67, 2>>>>
      [] key = "hontai_kbn" -> <<<<92, 1>>>>
      [] key = "hinmei" -> <<<<105, 23>>>>
      [] key = "width" -> <<<<127, 5>>>>
      [] key = "height" -> <<<<132, 5>>>>
      [] key = "honseki_cd" -> <<<<152, 4>>>>
      [] key = "model_cd" -> <<<<125, 2>>>>
      [] key = "db_bunrui_cd" -> <<<<256, 3>>>>

\* field_constraints of validate_extracted_data (maximum lengths of the table columns).
field_constraints(key) ==
    CASE key = "seisan_tehai_no" -> 12
      [] key = "seisan_tehai_sub_no" -> 3
      [] key = "juchu_no" -> 11
      [] key = "check_no" -> 13
      [] key = "daisu_no" -> 7
      [] key = "kyoten_cd" -> 6
      [] key = "seisakusho_fuka_cd" -> 6
      [] key = "seisakusho_mae_cd" -> 6
      [] key = "seisakusho_ato_cd" -> 6
      [] key = "shohingun_cd" -> 1
      [] key = "seisanbi" -> 6
      [] key = "seisan_check_sub_no" -> 3
      [] key = "shukkabi" -> 6
      [] key = "shukka_basho" -> 2
      [] key = "hontai_kbn" -> 1
      [] key = "hinmei" -> 23
      [] key = "width" -> 5
      [] key = "height" -> 5
      [] key = "honseki_cd" -> 4
      [] key = "model_cd" -> 2
      [] key = "db_bunrui_cd" -> 3

\* "".join(filter(None, substrings)): the ranges found, concatenated in order.
RECURSIVE JoinFound(_, _, _)
JoinFound(qr_code, ranges, i) ==
    IF i > Len(ranges) THEN <<>>
    ELSE extract_field(qr_code, ranges[i][1], ranges[i][2]).val
            \o JoinFound(qr_code, ranges, i + 1)

RECURSIVE SumLen(_, _)
SumLen(ranges, i) == IF i > Len(ranges) THEN 0 ELSE ranges[i][2] + SumLen(ranges, i + 1)

FieldValue(qr_code, key) == JoinFound(qr_code, field_mappings(key), 1)

ExpectLen(key) == SumLen(field_mappings(key), 1)

\* datetime.strptime(seisanbi, "%y%m%d"): %y is two digits; %m is 1[0-2]|0[1-9]|[1-9];
\* %d is 3[01]|[12]\d|0[1-9]|[1-9]| [1-9]; the whole text must match and name a
\* day of the calendar.
IsLeap(y) == (y % 4 = 0 /\ y % 100 # 0) \/ y % 400 = 0

DaysIn(y, m) ==
    IF m = 2 THEN (IF IsLeap(y) THEN 29 ELSE 28)
    ELSE IF m \in {4, 6, 9, 11} THEN 30 ELSE 31

Century(yy) == IF yy >= 69 THEN 1900 + yy ELSE 2000 + yy

StrptimeOk(s) ==
    /\ Len(s) = 6
    /\ s[1] \in Digits /\ s[2] \in Digits
    /\ s[3] \in Digits /\ s[4] \in Digits
    /\ s[6] \in Digits /\ (s[5] \in Digits \/ (s[5] = " " /\ s[6] # "0"))
    /\ LET yy == 10 * DigitVal(s[1]) + DigitVal(s[2])
           mm == 10 * DigitVal(s[3]) + DigitVal(s[4])
           dd == (IF s[5] = " " THEN 0 ELSE 10 * DigitVal(s[5])) + DigitVal(s[6])
       IN  /\ mm \in 1..12
           /\ dd \in 1..31
           /\ dd <= DaysIn(Century(yy), mm)

\* validate_extracted_data: functional codes (<= 32 characters) pass; otherwise no
\* field and not the code itself may exceed its column.
validate_extracted_data(qr_code) ==
    \/ Len(qr_code) <= FUNCTIONAL_QR_MAX
    \/ /\ \A i \in 1..Len(FieldNames) :
              Len(FieldValue(qr_code, FieldNames[i])) <= field_constraints(FieldNames[i])
       /\ Len(qr_code) <= QR_CD_MAX

\* The "valid" flag of extract_info: every field has its expected length and the
\* production date parses.
FieldsValid(qr_code) ==
    /\ \A i \in 1..Len(FieldNames) :
          Len(FieldValue(qr_code, FieldNames[i])) = ExpectLen(FieldNames[i])
    /\ LET seisanbi == FieldValue(qr_code, "seisanbi")
       IN  seisanbi # <<>> => StrptimeOk(seisanbi)

\* extract_info: the fields when the code is valid.  When it is not, the function
\* calls handle_error_qr("E05", qr_code) with two of its six positional arguments,
\* which raises TypeError before handle_error_qr's body runs.
extract_info(qr_code) ==
    IF FieldsValid(qr_code) /\ validate_extracted_data(qr_code)
    THEN [raised |-> "", data |-> [i \in 1..Len(FieldNames) |-> FieldValue(qr_code, FieldNames[i])]]
    ELSE [raised |-> "TypeError", data |-> <<>>]

\* extract_info of every payload of the model.
ExtractTable == [line \in AllLines |-> extract_info(Text(line))]

\* The class of every payload, as the dispatcher's tests see it.
ClassTable ==
    [line \in AllLines |->
        [process |-> IsProcessCode(Text(line)),
         worker |-> IsWorkerCode(Text(line)),
         indirect |-> IsIndirectCode(Text(line))]]

(***************************************************************************)
(* State.                                                                  *)
(***************************************************************************)
VARIABLES
    current_state,          \* port -> session (status, workers, process, start_time, ...)
    pair_state,             \* port -> pair info (pair_mode, recent_workers, last_worker_ts)
    last_qr_codes,          \* port -> last accepted line, NoLine when none
    db,                     \* the committed rows of t_prod_trac_input, in insert order
    now,                    \* the wall clock (seconds)
    lcd_timer_generations,  \* port -> generation, 0 when the port has no entry
    lcd_timer_threads,      \* port -> id of the registered timer task, 0 when none
    tasks,                  \* the timer tasks that are alive
    last_render,            \* the last render call started by a timer task
    config,                 \* port -> configured default worker_cd / process_cd
    ev,                     \* the last scan handled: port, line, handler, exception ...
    nscan,                  \* number of scans dispatched so far
    qr_input,                \* the argument of the extract_info call under test
    extracted,              \* what that call gave: not called yet, fields, or a raise
    loops,                  \* port -> where its read_from_port thread is
    stop_event,             \* the process-wide stop event
    main_pc,                \* where main_program is in its stop sequence
    received,               \* port -> the bytes read from the serial line so far
    buffer,                 \* port -> read_from_port's buffer (decoded, not yet split)
    dispatched,             \* port -> the payloads handed to process_data, in order
    rc,                     \* the reconnect call under test
    connection_status,      \* port -> whether the port is marked connected
    read_errors,            \* port -> number of reads that raised so far
    port_lock,              \* the holder of port_lock, NoHolder when it is free
    opening,                \* main_program's open_serial_port call in progress
    worker_lcd,             \* port -> current_state[port]["worker_lcd"], the label shown
    writing,                \* port -> its handler stands between two of its writes
    snapshot,               \* the last copy a timer task took under port_lock
    scope                   \* the session_scope call under test

vars == <<current_state, pair_state, last_qr_codes, db, now, lcd_timer_generations,
          lcd_timer_threads, tasks, last_render, config, ev, nscan, qr_input, extracted,
          loops, stop_event, main_pc, received, buffer, dispatched, rc,
          connection_status, read_errors, port_lock, opening, worker_lcd, writing,
          snapshot, scope>>

\* The variables of the session engine (scans, store, timers).
sessionVars == <<current_state, pair_state, last_qr_codes, db, now, lcd_timer_generations,
                 lcd_timer_threads, tasks, last_render, config, ev, nscan>>

\* The variables of the extractor calls.
extractVars == <<qr_input, extracted>>

\* The variables of the threads: ingestion loops, stop event, main_program.
loopVars == <<loops, stop_event, main_pc>>

\* The variables of the serial line of each port.
wireVars == <<received, buffer, dispatched, connection_status, read_errors>>

\* The variables of port_lock, of those who take it and of what they protect.
lockVars == <<port_lock, opening, worker_lcd, writing, snapshot>>

\* attempts = 2 if retry_enabled else 1
OPEN_ATTEMPTS == 2

NoHolder == ""
NoOpening == [port |-> "", pc |-> "none", attempt |-> 0]
NoSnapshot == [port |-> "", worker_cd |-> NoCode, worker_lcd |-> NoCode, torn |-> FALSE]
\* def session_scope(max_retries=5)
DEFAULT_SCOPE_RETRIES == 5

\* A session_scope call: SessionFactory() fails `failures` times before it gives a
\* session; the body and the commit each complete or raise.  What the call did is
\* counted in the other fields.
ScopeCall(failures, body, commit) ==
    [pc |-> "acquire", max_retries |-> DEFAULT_SCOPE_RETRIES, attempt |-> 0,
     failures |-> failures, body |-> body, commit |-> commit,
     attempts |-> 0, bodies |-> 0, commits |-> 0, committed |-> FALSE,
     rolled_back |-> FALSE, closed |-> FALSE, raised |-> FALSE, slept |-> <<>>]

NoScope == [ScopeCall(0, "completes", "completes") EXCEPT !.pc = "none"]

\* get_worker_lcd: the label the worker master holds for the code (one per code),
\* the empty label when there is no worker.
get_worker_lcd(worker_cd) == IF worker_cd = NoCode THEN <<>> ELSE <<"lcd">> \o worker_cd

\* init_current_state
init_current_state ==
    [status |-> STATUS_WAITING, worker_cd |-> NoCode, worker2_cd |-> NoCode,
     process_cd |-> NoLine, qr_cd |-> NoLine, start_time |-> NoTime,
     rework_status |-> NoLabel]

\* init_pair_state_for_port
init_pair_state_for_port ==
    [pair_mode |-> FALSE, last_worker_ts |-> NoTime, recent_workers |-> <<>>]

\* The fallbacks of handle_indirect_qr when config.ini names no worker / process.
DEFAULT_WORKER == <<"0", "0", "0", "0", "0", "0">>
DEFAULT_PROCESS == "PX000"

\* config.ini, as far as the handlers read it: either no defaults, or a default
\* worker and process for every port.
NoDefaults == [p \in Ports |-> [worker_cd |-> NoCode, process_cd |-> NoLine]]

WithDefaults == [p \in Ports |-> [worker_cd |-> <<"9">>, process_cd |-> "PC000"]]

Configs == {NoDefaults, WithDefaults}

NotCalled == [called |-> FALSE, raised |-> "", data |-> <<>>]

NoRender == [port |-> "", id |-> 0, gen |-> 0, live |-> 0, newest |-> 0, stop |-> FALSE]

NoEvent ==
    [port |-> "", line |-> NoLine, fault |-> "none", handler |-> "", exc |-> "",
     audit |-> 0, inserted |-> 0, closed |-> 0, prev |-> NoLine,
     prev_status |-> STATUS_WAITING, prev_pair |-> FALSE, prev_ts |-> NoTime,
     prev_exc |-> "", escaped |-> FALSE, origin |-> ""]

\* No reconnect call under test.
NoReconnect ==
    [pc |-> "idle", retry |-> 0, max_retry |-> 0, backoff_sec |-> 0, slept |-> <<>>,
     result |-> "", opens |-> 0, serial_errors |-> 0, settings |-> FALSE]

(***************************************************************************)
(* The machine state a handler works on: the variables, the unit of work   *)
(* (tx: the session's view of the rows, db: what is committed), and what   *)
(* the handler has done so far.                                            *)
(***************************************************************************)
Machine(p, line, f, d) ==
    [cs |-> current_state, ps |-> pair_state, last |-> last_qr_codes, db |-> db, tx |-> db,
     now |-> now + d, gen |-> lcd_timer_generations, th |-> lcd_timer_threads, tasks |-> tasks,
     render |-> last_render, cfg |-> config, port |-> p, line |-> line, fault |-> f,
     fired |-> FALSE, exc |-> "", handler |-> "", audit |-> 0, rows |-> 0,
     scan |-> nscan + 1, full |-> FALSE, ret |-> FALSE, dirty |-> FALSE, escaped |-> FALSE,
     origin |-> ""]

\* S >>= F, skipping F for the outcomes in which an exception is propagating.
Then(S, F(_)) == UNION { IF x.exc # "" THEN {x} ELSE F(x) : x \in S }

\* try: S except Exception: H
Catch(S, H(_)) == UNION { IF x.exc # "" THEN H(x) ELSE {x} : x \in S }

\* raise e, from the handlers' own code or the store (origin: not the display).
Raise(m, e) == [m EXCEPT !.exc = e, !.origin = ""]

DbPoints == {"close", "commit_close", "insert", "insert2", "commit_insert", "query",
             "commit_status", "timer_scope"}

Faults == DbPoints \cup {"none", "db_down"}

\* The calls across the display boundary (methods of the display objects).
DisplayPoints == {"update", "show_error", "display_message", "play_pair_animation",
                  "stop_worker_swap"}

\* Whether the injected fault hits the operation at `point`: a fault named after a
\* point hits the first operation at that point, db_down every store operation,
\* display_down every display call.
Fails(m, point) ==
    \/ m.fault = point
    \/ m.fault = "db_down" /\ point \in DbPoints
    \/ m.fault = "display_down" /\ point \in DisplayPoints

Fire(m) ==
    [m EXCEPT !.fired = TRUE, !.fault = IF @ \in {"db_down", "display_down"} THEN @ ELSE "spent"]

\* session.rollback()
Rollback(m) == [m EXCEPT !.tx = m.db, !.dirty = FALSE]

\* session.commit(): a commit that fails leaves the session unusable (dirty) until
\* it is rolled back.
Commit(m, point) ==
    IF m.dirty THEN Raise(m, "InvalidRequestError")
    ELSE IF Fails(m, point) THEN Raise(Fire([m EXCEPT !.dirty = TRUE]), "SQLAlchemyError")
    ELSE [m EXCEPT !.db = m.tx]

\* log_qr_fallback(qr_cd=..., port=..., status=..., ...): one audit line.
log_qr_fallback(m) == [m EXCEPT !.audit = @ + 1]

\* log_qr_fallback(qr_cd, port, status=...): the function is keyword-only, so the
\* call raises TypeError and writes nothing.
log_qr_fallback_positional(m) == Raise(m, "TypeError")

(***************************************************************************)
(* Record store operations.                                                *)
(***************************************************************************)
Production(worker_cd, process_cd, status, start_dt, qr_cd, p, scan) ==
    [worker_cd |-> worker_cd, process_cd |-> process_cd, status |-> status,
     start_dt |-> start_dt, end_dt |-> NoTime, qr_cd |-> qr_cd, port |-> p, scan |-> scan]

\* insert_data with the caller's session: add and flush; on failure roll back, re-raise.
insert_data(m, worker_cd, process_cd, status, start_dt, qr_cd, point) ==
    IF m.dirty THEN Raise(Rollback(m), "InvalidRequestError")
    ELSE IF Fails(m, point) THEN Raise(Rollback(Fire(m)), "SQLAlchemyError")
    ELSE IF Len(m.tx) >= MaxRecords THEN [m EXCEPT !.full = TRUE]
    ELSE [m EXCEPT !.tx = Append(@, Production(worker_cd, process_cd, status, start_dt,
                                               qr_cd, m.port, m.scan))]

\* insert_production_record_second: the partner's row; skipped when there is no
\* partner or the partner is the first worker.
insert_production_record_second(m, worker_cd_first, worker_cd_second, process_cd, status, start_dt, qr_cd) ==
    IF worker_cd_second = NoCode THEN m
    ELSE IF worker_cd_first = worker_cd_second THEN m
    ELSE LET r == insert_data(m, worker_cd_second, process_cd, status, start_dt, qr_cd,
                              "insert2")
         IN  IF r.exc # "" THEN log_qr_fallback_positional(Rollback(r)) ELSE r

\* The open rows of a code, latest start first: the candidates of .first().
LatestOpen(rows, qr_cd) ==
    LET open == {i \in 1..Len(rows) : rows[i].qr_cd = qr_cd /\ rows[i].end_dt = NoTime}
    IN  {i \in open : \A j \in open : rows[j].start_dt <= rows[i].start_dt}

\* The row as update_previous_qr_code_end_time leaves it: end_dt set, and worker_cd /
\* process_cd overwritten with the port's current ones when those are set.
ClosedRow(row, session, t) ==
    [row EXCEPT !.end_dt = t,
                !.worker_cd = IF session.worker_cd # NoCode THEN session.worker_cd ELSE @,
                !.process_cd = IF session.process_cd # NoLine THEN session.process_cd ELSE @]

\* update_previous_qr_code_end_time: closes the latest open row whose qr_cd is
\* prev_qr_code (whichever port inserted it); m.rows counts the rows closed.
update_previous_qr_code_end_time(m, prev_qr_code) ==
    IF m.dirty THEN {Raise(m, "InvalidRequestError")}
    ELSE IF Fails(m, "close") THEN {Raise(Fire(m), "SQLAlchemyError")}
    ELSE IF LatestOpen(m.tx, prev_qr_code) = {} THEN {m}
    ELSE { [m EXCEPT !.tx[i] = ClosedRow(@, m.cs[m.port], m.now), !.rows = @ + 1] :
             i \in LatestOpen(m.tx, prev_qr_code) }

\* close_open_record_fallback(qr_cd, session, port, ...): closes the latest open row
\* of qr_cd and commits.  session_is_session: whether the value bound to `session`
\* is a session; with anything else session.query raises, and so does the
\* session.rollback() of the except clause.
close_open_record_fallback(m, qr_cd, session_is_session) ==
    IF ~session_is_session THEN {Raise(m, "AttributeError")}
    ELSE Catch(Then(update_previous_qr_code_end_time(m, qr_cd),
                    LAMBDA x : {Commit(x, "commit_close")}),
               LAMBDA x : {log_qr_fallback(log_qr_fallback(Rollback(x)))})

\* The call sites pass (session, port, prev_q, lcd): qr_cd is bound to the session
\* and session to the port string.
call_close_open_record_fallback(m, prev_q) == close_open_record_fallback(m, "session", FALSE)

(***************************************************************************)
(* The display boundary.  A display call changes nothing the handlers      *)
(* read; it returns, or raises.                                            *)
(***************************************************************************)
DisplayCall(m, point) ==
    IF Fails(m, point) THEN [Fire(m) EXCEPT !.exc = "OSError", !.origin = "display"] ELSE m

\* except Exception as e: logging.warning(...)
Swallow(m) == {[m EXCEPT !.exc = "", !.origin = ""]}

_lcd_update_full_Unguarded(m) == {DisplayCall(m, "update")}

\* _lcd_update_full: lcd.update (through _safe_lcd_update) inside its own try/except.
_lcd_update_full(m) == Catch({DisplayCall(m, "update")}, Swallow)

\* oled_manager.update(...): OledDisplayManager.update has no try of its own.
oled_manager_update(m) == {DisplayCall(m, "update")}

\* oled_manager.stop_worker_swap(): the method catches every exception itself.
stop_worker_swap(m) == Catch({DisplayCall(m, "stop_worker_swap")}, Swallow)

\* try: oled_manager.play_pair_animation() except Exception: logging.warning
play_pair_animation(m) == Catch({DisplayCall(m, "play_pair_animation")}, Swallow)

\* try: lcd_obj.display_message(line) except Exception: logging.warning
display_message(m) == Catch({DisplayCall(m, "display_message")}, Swallow)

\* show_temp_error(lcd, code): lcd.show_error(lines, duration=5), not in a try.
show_temp_error(m) == {DisplayCall(m, "show_error")}

(***************************************************************************)
(* Display timer: start / stop.                                            *)
(***************************************************************************)
Task(id, p, gen) == [id |-> id, port |-> p, gen |-> gen, pc |-> "wait", stop |-> FALSE]

Registered(m, p) == {t \in m.tasks : t.port = p /\ t.id = m.th[p]}

\* prev_ev.set() and prev_th.join(timeout): a task waiting on its stop event wakes
\* and exits; a task that is past its checks (taking its snapshot, or inside the
\* render call) either finishes its tick within the timeout and exits, or is still
\* alive when the join times out.
SetAndJoin(m, p) ==
    IF Registered(m, p) = {} THEN {m}
    ELSE LET t == CHOOSE x \in Registered(m, p) : TRUE
             gone == [m EXCEPT !.tasks = @ \ {t}]
             left == [m EXCEPT !.tasks = (@ \ {t}) \cup {[t EXCEPT !.stop = TRUE]}]
             drawn == [gone EXCEPT !.render = [port |-> p, id |-> t.id, gen |-> t.gen,
                                              live |-> m.gen[p], newest |-> m.th[p],
                                              stop |-> TRUE]]
         IN  CASE t.pc \in {"wait", "check"} -> {gone}
               [] t.pc = "snap" -> {gone, drawn, left}
               [] t.pc = "render" -> {gone, left}

stop_lcd_timer_KeepsStartTime(m, p) ==
    LET bumped == [m EXCEPT !.gen[p] = @ + 1]
    IN  UNION { _lcd_update_full([x EXCEPT !.cs[p].status = STATUS_ENDED,
                                           !.th[p] = 0,
                                           !.gen[p] = 0]) : x \in SetAndJoin(bumped, p) }

stop_lcd_timer_StopsEveryPort(m, p) ==
    LET bumped == [m EXCEPT !.gen[p] = @ + 1]
    IN  UNION { _lcd_update_full([x EXCEPT !.cs[p].status = STATUS_ENDED,
                                           !.cs[p].start_time = NoTime,
                                           !.th = [q \in Ports |-> 0],
                                           !.gen = [q \in Ports |-> 0]]) :
                   x \in SetAndJoin(bumped, p) }

\* stop_lcd_timer
stop_lcd_timer(m, p) ==
    LET bumped == [m EXCEPT !.gen[p] = @ + 1]
    IN  UNION { _lcd_update_full([x EXCEPT !.cs[p].status = STATUS_ENDED,
                                           !.cs[p].start_time = NoTime,
                                           !.th[p] = 0,
                                           !.gen[p] = 0]) : x \in SetAndJoin(bumped, p) }

\* start_lcd_timer
start_lcd_timer(m, p, qr_cd) ==
    LET bumped == [m EXCEPT !.gen[p] = @ + 1]
        started(x) ==
            IF Fails(x, "timer_scope")
            THEN Raise(Fire([x EXCEPT !.th[p] = 0]), "SQLAlchemyError")
            ELSE [x EXCEPT !.th[p] = x.scan,
                           !.tasks = @ \cup {Task(x.scan, p, x.gen[p])},
                           !.cs[p].qr_cd = qr_cd,
                           !.cs[p].start_time = x.now,
                           !.cs[p].status = STATUS_WORKING]
    IN  { started(x) : x \in SetAndJoin(bumped, p) }

\* Time passing between two clock reads of one handler: none that the clock shows,
\* or a second.
Elapse(m) == {m, [m EXCEPT !.now = @ + 1]}

(***************************************************************************)
(* The handlers.  Each maps the machine state to the set of its outcomes.  *)
(***************************************************************************)
\* except Exception: session.rollback(); log_qr_fallback(qr_cd, port, ...); raise
RollbackAndAudit(m) == {log_qr_fallback_positional(Rollback(m))}

\* The close of the end-or-same handler (its "DB" block).
EndClose(m) ==
    LET p == m.port
        prev_q == m.last[p]
        first(x) == IF x.cs[p].worker_cd # NoCode
                    THEN update_previous_qr_code_end_time(x, prev_q) ELSE {x}
        second(x) == IF x.cs[p].worker2_cd # NoCode
                     THEN update_previous_qr_code_end_time(x, prev_q) ELSE {x}
        commit(x) == {Commit(x, "commit_close")}
        fallback(x) == IF x.rows = 0 THEN call_close_open_record_fallback(x, prev_q) ELSE {x}
        body == IF m.ps[p].pair_mode
                THEN Catch(Then(Then(first(m), second), commit), RollbackAndAudit)
                ELSE IF m.cs[p].worker_cd # NoCode
                     THEN Then(Then(first(m), fallback), commit)
                     ELSE {m}
    IN  Catch(body, RollbackAndAudit)

IsEndOrSame_SentinelOnly(qr_cd, prev_q) == prev_q # NoLine /\ qr_cd = END_QR

\* The trigger of handle_end_or_same_qr: a previous code is recorded for the port,
\* and the line is the sentinel or that code.
IsEndOrSame(qr_cd, prev_q) == prev_q # NoLine /\ qr_cd \in {END_QR, prev_q}

\* The end-or-same handler closing the records first and ending the session after.
handle_end_or_same_qr_EndsAfterClose(m) ==
    LET p == m.port
        ended(x) == { [y EXCEPT !.cs[p].status = STATUS_ENDED] : y \in stop_lcd_timer(x, p) }
    IN  IF ~IsEndOrSame(m.line, m.last[p]) THEN {[m EXCEPT !.ret = FALSE]}
        ELSE Then(Then(Then(EndClose([m EXCEPT !.handler = "end_or_same", !.ret = TRUE]),
                            ended),
                       stop_worker_swap),
                  _lcd_update_full)

\* 1. handle_end_or_same_qr: m.ret tells whether the line was handled here.
handle_end_or_same_qr(m) ==
    LET p == m.port
    IN  IF ~IsEndOrSame(m.line, m.last[p]) THEN {[m EXCEPT !.ret = FALSE]}
        ELSE LET stopped == { [x EXCEPT !.cs[p].status = STATUS_ENDED] :
                                x \in stop_lcd_timer([m EXCEPT !.handler = "end_or_same",
                                                               !.ret = TRUE], p) }
             IN  Then(Then(Then(stopped, stop_worker_swap), EndClose), _lcd_update_full)

\* The latest open rows of the port's current worker and process.
LatestOpenOf(rows, worker_cd, process_cd) ==
    LET open == {i \in 1..Len(rows) : /\ rows[i].worker_cd = worker_cd
                                      /\ rows[i].process_cd = process_cd
                                      /\ rows[i].end_dt = NoTime}
    IN  {i \in open : \A j \in open : rows[j].start_dt <= rows[i].start_dt}

\* 2. handle_status_qr
handle_status_qr(m) ==
    LET p == m.port
        m0 == [m EXCEPT !.handler = "status", !.ret = TRUE]
        status_label == status_mapping[m.line]
        latest == LatestOpenOf(m.tx, m.cs[p].worker_cd, m.cs[p].process_cd)
        body ==
            IF Fails(m0, "query") THEN {Raise(Fire(m0), "SQLAlchemyError")}
            ELSE IF latest # {} /\ m.cs[p].status = STATUS_WORKING
            THEN UNION { Then({Commit([m0 EXCEPT !.tx[i].status = status_label],
                                      "commit_status")},
                              LAMBDA x : {[x EXCEPT !.cs[p].rework_status = NoLabel]}) :
                         i \in latest }
            ELSE {[m0 EXCEPT !.cs[p].rework_status = status_label]}
    IN  Catch(Then(body, _lcd_update_full), RollbackAndAudit)

\* 3. handle_process_qr
handle_process_qr(m) ==
    Catch(Then(_lcd_update_full([m EXCEPT !.handler = "process", !.ret = TRUE,
                                          !.cs[m.port].process_cd = m.line,
                                          !.cs[m.port].qr_cd = m.line]),
               oled_manager_update),
          Swallow)

WindowExpired_AtWindow(ps, t) ==
    ps.last_worker_ts # NoTime /\ t - ps.last_worker_ts >= PAIR_WINDOW_SECONDS

\* More than PAIR_WINDOW_SECONDS since the last worker scan.
WindowExpired(ps, t) ==
    ps.last_worker_ts # NoTime /\ t - ps.last_worker_ts > PAIR_WINDOW_SECONDS

\* The pairing rule without the step down from pair to solo: in pair mode a scan
\* on an expired window changes the window and leaves the mode and the workers.
PairAfter_NoDemotion(ps, session, worker_cd, t) ==
    LET kept == IF WindowExpired(ps, t) THEN <<>> ELSE ps.recent_workers
        added == Append(kept, worker_cd)
        recent == IF Len(added) > RECENT_WORKERS_KEPT
                  THEN SubSeq(added, Len(added) - RECENT_WORKERS_KEPT + 1, Len(added))
                  ELSE added
        n == Len(recent)
        same == [pair_mode |-> ps.pair_mode, w1 |-> session.worker_cd,
                 w2 |-> session.worker2_cd]
        r == IF ~ps.pair_mode
             THEN CASE n = 1 -> [pair_mode |-> FALSE, w1 |-> recent[1], w2 |-> NoCode]
                    [] n = 2 -> [pair_mode |-> TRUE, w1 |-> recent[1], w2 |-> recent[2]]
                    [] n = 3 -> [pair_mode |-> TRUE, w1 |-> recent[1], w2 |-> recent[3]]
             ELSE CASE n = 2 -> [pair_mode |-> TRUE, w1 |-> recent[1], w2 |-> recent[2]]
                    [] OTHER -> same
    IN  [ps |-> [pair_mode |-> r.pair_mode, last_worker_ts |-> t, recent_workers |-> recent],
         worker_cd |-> r.w1, worker2_cd |-> r.w2]

\* The pairing rule of handle_worker_qr: the pair state and the workers after
\* worker_cd is scanned at time t.
PairAfter(ps, session, worker_cd, t) ==
    LET kept == IF WindowExpired(ps, t) THEN <<>> ELSE ps.recent_workers
        added == Append(kept, worker_cd)
        recent == IF Len(added) > RECENT_WORKERS_KEPT
                  THEN SubSeq(added, Len(added) - RECENT_WORKERS_KEPT + 1, Len(added))
                  ELSE added
        n == Len(recent)
        solo == [pair_mode |-> FALSE, w1 |-> recent[1], w2 |-> NoCode]
        same == [pair_mode |-> ps.pair_mode, w1 |-> session.worker_cd,
                 w2 |-> session.worker2_cd]
        r == IF ~ps.pair_mode
             THEN CASE n = 1 -> solo
                    [] n = 2 -> [pair_mode |-> TRUE, w1 |-> recent[1], w2 |-> recent[2]]
                    [] n = 3 -> [pair_mode |-> TRUE, w1 |-> recent[1], w2 |-> recent[3]]
             ELSE CASE n = 1 -> solo
                    [] n = 2 -> [pair_mode |-> TRUE, w1 |-> recent[1], w2 |-> recent[2]]
                    [] OTHER -> same
    IN  [ps |-> [pair_mode |-> r.pair_mode, last_worker_ts |-> t, recent_workers |-> recent],
         worker_cd |-> r.w1, worker2_cd |-> r.w2]

\* 4. handle_worker_qr
handle_worker_qr(m) ==
    LET p == m.port
        r == PairAfter(m.ps[p], m.cs[p], WorkerOf(Text(m.line)), m.now)
        paired == [m EXCEPT !.handler = "worker", !.ret = TRUE,
                            !.ps[p] = r.ps,
                            !.cs[p].worker_cd = r.worker_cd,
                            !.cs[p].worker2_cd = r.worker2_cd]
        promoted == ~m.ps[p].pair_mode /\ Len(r.ps.recent_workers) = 2
    IN  Then(IF promoted THEN play_pair_animation(paired) ELSE {paired},
             LAMBDA x : Catch(Then(_lcd_update_full(x), oled_manager_update), Swallow))

\* qr_cd.split(":")[1].split("-")[0]
RECURSIVE UpTo(_, _, _)
UpTo(t, i, stops) ==
    IF i > Len(t) \/ t[i] \in stops THEN <<>> ELSE <<t[i]>> \o UpTo(t, i + 1, stops)

IndirectCode(t) == UpTo(t, 4, {":", "-"})

\* indirect_work_master: the rows of the master table (work_code -> record_name).
IndirectMaster(code) == IF code = <<"A", "0", "1">> THEN "seiri-seiton" ELSE ""

INDIRECT_STATUS == "kansetsu-sagyo"

\* The two inserts and the commit of an open (indirect, switch part 2).
OpenRows(m, status_val) ==
    LET p == m.port
        one == insert_data(m, m.cs[p].worker_cd, m.cs[p].process_cd, status_val, m.now,
                           m.line, "insert")
        two(x) == IF x.ps[p].pair_mode /\ x.cs[p].worker2_cd # NoCode
                  THEN { insert_production_record_second(y, y.cs[p].worker_cd,
                             y.cs[p].worker2_cd, y.cs[p].process_cd, status_val, y.now,
                             y.line) : y \in Elapse(x) }
                  ELSE {x}
    IN  Then(Then({one}, two), LAMBDA x : {Commit(x, "commit_insert")})

\* 5. handle_indirect_qr
handle_indirect_qr(m) ==
    LET p == m.port
        m0 == [m EXCEPT !.handler = "indirect", !.ret = TRUE, !.last[p] = m.line]
        found == IndirectMaster(IndirectCode(Text(m.line)))
        status_val == IF found # "" THEN found ELSE INDIRECT_STATUS
        filled(x) ==
            [x EXCEPT !.cs[p].worker_cd =
                          IF @ # NoCode THEN @
                          ELSE IF x.cfg[p].worker_cd # NoCode THEN x.cfg[p].worker_cd
                          ELSE DEFAULT_WORKER,
                      !.cs[p].process_cd =
                          IF @ # NoLine THEN @
                          ELSE IF x.cfg[p].process_cd # NoLine THEN x.cfg[p].process_cd
                          ELSE DEFAULT_PROCESS]
        lookup == IF Fails(m0, "query") THEN {Raise(Fire(m0), "SQLAlchemyError")} ELSE {m0}
        body == Then(Then(Then(lookup, LAMBDA x : OpenRows(filled(x), status_val)),
                          _lcd_update_full),
                     LAMBDA x : start_lcd_timer(x, p, x.line))
        again(x) ==
            LET y == insert_data([x EXCEPT !.exc = ""], x.cs[p].worker_cd,
                                 x.cs[p].process_cd, INDIRECT_STATUS, x.now, x.line, "insert")
            IN  Then({y}, LAMBDA z : Catch({Commit(z, "commit_insert")}, RollbackAndAudit))
    IN  Catch(body, again)

\* The close of the switch handler (its part [1]).
SwitchClose(m) ==
    LET p == m.port
        prev_q == m.last[p]
        first(x) == IF x.cs[p].worker_cd # NoCode
                    THEN update_previous_qr_code_end_time(x, prev_q) ELSE {x}
        second(x) == IF x.cs[p].worker2_cd # NoCode
                     THEN update_previous_qr_code_end_time(x, prev_q) ELSE {x}
        commit(x) == {Commit(x, "commit_close")}
        fallback(x) == IF x.rows = 0 THEN call_close_open_record_fallback(x, prev_q) ELSE {x}
        body == IF m.ps[p].pair_mode
                THEN Then(Then(Then(first(m), second), fallback), commit)
                ELSE IF m.cs[p].worker_cd # NoCode
                     THEN Then(Then(first(m), fallback), commit)
                     ELSE {m}
    IN  Catch(body, RollbackAndAudit)

\* The override read and left in place.
ConsumeRework_LeftPending(m) == m

\* The status of the next inserted row: the pending override, else "operation";
\* the override is cleared when it is read.
ConsumeRework(m) == [m EXCEPT !.cs[m.port].rework_status = NoLabel]

StatusVal(m) ==
    IF m.cs[m.port].rework_status # NoLabel THEN m.cs[m.port].rework_status ELSE "operation"

\* The open of the switch handler (its part [2]).
SwitchOpen(m) ==
    LET e == ExtractTable[m.line]
        body == IF e.raised # "" THEN {Raise(m, e.raised)}
                ELSE OpenRows(ConsumeRework(m), StatusVal(m))
    IN  Catch(body, RollbackAndAudit)

handle_switch_qr_OpensAfterFailedClose(m) ==
    LET p == m.port
        m0 == [m EXCEPT !.handler = "switch", !.ret = TRUE]
        swallow(x) == {[x EXCEPT !.exc = ""]}
    IN  { [x EXCEPT !.last[p] = IF x.exc = "" THEN x.line ELSE @] :
            x \in Then(Then(Then(Catch(Then(Then(stop_lcd_timer(m0, p), stop_worker_swap),
                                            SwitchClose),
                                       swallow),
                                 SwitchOpen),
                            _lcd_update_full),
                       LAMBDA y : start_lcd_timer(y, p, y.line)) }

\* 6. handle_switch_qr
handle_switch_qr(m) ==
    LET p == m.port
        m0 == [m EXCEPT !.handler = "switch", !.ret = TRUE]
    IN  IF m.last[p] = NoLine THEN {m0}
        ELSE { [x EXCEPT !.last[p] = IF x.exc = "" THEN x.line ELSE @] :
                 x \in Then(Then(Then(Then(Then(stop_lcd_timer(m0, p), stop_worker_swap),
                                           SwitchClose),
                                      SwitchOpen),
                                 _lcd_update_full),
                            LAMBDA y : start_lcd_timer(y, p, y.line)) }

\* 7. handle_standard_qr
handle_standard_qr(m) ==
    LET p == m.port
        m0 == [m EXCEPT !.handler = "first_open", !.ret = TRUE]
        e == ExtractTable[m.line]
        start_dt == m.now
        status_val == StatusVal(m)
        one(x) == {insert_data(ConsumeRework(x), x.cs[p].worker_cd, x.cs[p].process_cd,
                               status_val, start_dt, x.line, "insert")}
        two(x) == IF x.ps[p].pair_mode /\ x.cs[p].worker2_cd # NoCode
                  THEN {insert_production_record_second(x, x.cs[p].worker_cd,
                            x.cs[p].worker2_cd, x.cs[p].process_cd, status_val, start_dt,
                            x.line)}
                  ELSE {x}
        commit(x) == Catch({Commit(x, "commit_insert")}, RollbackAndAudit)
    IN  IF e.raised # "" THEN {Raise(m0, e.raised)}
        ELSE { [x EXCEPT !.last[p] = IF x.exc = "" THEN x.line ELSE @] :
                 x \in Then(Then(Then(Then(one(m0), two), commit), _lcd_update_full),
                            LAMBDA y : start_lcd_timer(y, p, y.line)) }

\* The fallback handler reading the pending override as the inserting handlers do.
handle_error_qr_DropsOverride(m) ==
    show_temp_error(log_qr_fallback(Rollback(Raise(ConsumeRework([m EXCEPT !.handler = "fallback",
                                                                           !.ret = TRUE]),
                                                   "TypeError"))))

\* 8. handle_error_qr: Production(..., extracted_info={}) names no column of the
\* table, so the constructor raises TypeError; the except clause rolls back, writes
\* one audit line, shows the temporary error and re-raises.
handle_error_qr(m) ==
    show_temp_error(log_qr_fallback(Rollback(Raise([m EXCEPT !.handler = "fallback",
                                                             !.ret = TRUE],
                                                   "TypeError"))))

(***************************************************************************)
(* The dispatcher.                                                         *)
(***************************************************************************)
\* process_data: the first rule that matches decides the handler.
process_data(m) ==
    LET rest(x) ==
            IF x.line \in DOMAIN status_mapping THEN handle_status_qr(x)
            ELSE IF ClassTable[x.line].process THEN handle_process_qr(x)
            ELSE IF ClassTable[x.line].worker THEN handle_worker_qr(x)
            ELSE IF ClassTable[x.line].indirect THEN handle_indirect_qr(x)
            ELSE IF ExtractTable[x.line].raised # "" THEN {Raise(x, ExtractTable[x.line].raised)}
            ELSE IF ExtractTable[x.line].data # <<>>
                 THEN IF x.last[x.port] # NoLine THEN handle_switch_qr(x)
                      ELSE handle_standard_qr(x)
            ELSE handle_error_qr(x)
    IN  UNION { IF x.exc # "" \/ x.ret THEN {x} ELSE rest(x) : x \in handle_end_or_same_qr(m) }

\* with session_scope() as session: try: process_data(...) except Exception: log
\* -- the exception is caught inside the with block, so the scope commits.  A commit
\* that fails is rolled back and re-raised out of the with block (escaped).
ScopeExit(m) ==
    IF m.dirty \/ Fails(m, "commit_scope")
    THEN [Rollback(m) EXCEPT !.escaped = TRUE]
    ELSE [m EXCEPT !.db = m.tx]

\* The body of read_from_port's inner loop for one line: the line is shown, then
\* dispatched inside a session scope.
Outcomes(p, line, f, d) ==
    { ScopeExit(x) : x \in Then(display_message(Machine(p, line, f, d)), process_data) }

\* What the last scan did, for the properties.
EventOf(m) ==
    [port |-> m.port, line |-> m.line,
     fault |-> IF m.fired THEN (IF m.fault = "spent" THEN "fired" ELSE m.fault) ELSE "none",
     handler |-> m.handler, exc |-> m.exc, audit |-> m.audit,
     inserted |-> Cardinality({i \in 1..Len(m.db) : m.db[i].scan = m.scan}),
     closed |-> Cardinality({i \in 1..Len(db) : db[i].end_dt = NoTime
                                                  /\ m.db[i].end_dt # NoTime}),
     prev |-> last_qr_codes[m.port],
     prev_status |-> current_state[m.port].status,
     prev_pair |-> pair_state[m.port].pair_mode,
     prev_ts |-> pair_state[m.port].last_worker_ts,
     prev_exc |-> IF ev.port = m.port THEN ev.exc ELSE "",
     escaped |-> m.escaped,
     origin |-> m.origin]

\* The exception classes the handlers raise; all derive from Exception.
ExceptionClasses ==
    {"TypeError", "AttributeError", "SQLAlchemyError", "InvalidRequestError", "OSError"}

LoopAfter_NothingCaught(pc, m) == IF m.exc # "" THEN "dead" ELSE pc

\* Where read_from_port is after the frame: an Exception raised by process_data is
\* caught inside the with block and the inner loop goes on; one raised by the exit
\* of session_scope is caught by the outer except, which leaves the inner loop for
\* the next poll; anything else ends the thread.
LoopAfter(pc, m) ==
    IF m.exc # "" /\ m.exc \notin ExceptionClasses THEN "dead"
    ELSE IF m.escaped THEN "poll"
    ELSE pc

(***************************************************************************)
(* Initial state and actions.                                              *)
(***************************************************************************)
InitSession ==
    /\ config \in Configs
    /\ current_state = [p \in Ports |->
                            [init_current_state EXCEPT !.worker_cd = config[p].worker_cd,
                                                       !.process_cd = config[p].process_cd]]
    /\ pair_state = [p \in Ports |-> init_pair_state_for_port]
    /\ last_qr_codes = [p \in Ports |-> NoLine]
    /\ db = <<>>
    /\ now = 0
    /\ lcd_timer_generations = [p \in Ports |-> 0]
    /\ lcd_timer_threads = [p \in Ports |-> 0]
    /\ tasks = {}
    /\ last_render = NoRender
    /\ ev = NoEvent
    /\ nscan = 0

\* No extract_info call under test.
InitExtractIdle == qr_input = <<>> /\ extracted = NotCalled

\* Every port's thread is started and polls; main_program waits on the stop event.
InitLoops ==
    /\ loops = [p \in Ports |-> "poll"]
    /\ stop_event = FALSE
    /\ main_pc = "wait"

\* Nothing has arrived on any serial line; every port was opened before its thread
\* was started, and is marked connected.
InitWire ==
    /\ received = [p \in Ports |-> <<>>]
    /\ buffer = [p \in Ports |-> <<>>]
    /\ dispatched = [p \in Ports |-> <<>>]
    /\ connection_status = [p \in Ports |-> TRUE]
    /\ read_errors = [p \in Ports |-> 0]

InitReconnectIdle == rc = NoReconnect

\* port_lock is free, every port was opened, no handler is at work, no snapshot
\* was taken; the labels are those of the configured workers.
InitLockIdle ==
    /\ port_lock = NoHolder
    /\ opening = NoOpening
    /\ worker_lcd = [p \in Ports |-> get_worker_lcd(current_state[p].worker_cd)]
    /\ writing = [p \in Ports |-> FALSE]
    /\ snapshot = NoSnapshot

InitScopeIdle == scope = NoScope

Init ==
    /\ InitSession /\ InitExtractIdle /\ InitLoops /\ InitWire /\ InitReconnectIdle
    /\ InitLockIdle /\ InitScopeIdle

\* The same, in the usual deployment: every port has its defaults in config.ini.
InitConfigured == Init /\ config = WithDefaults

\* One line read from a port and dispatched (read_from_port's inner loop body), d
\* seconds after the line before it.
ScanCore(p, line, f, d, bound) ==
    /\ nscan < bound
    /\ loops[p] = "frames" \/ (loops[p] = "poll" /\ ~stop_event)
    /\ ~writing[p]
    /\ \E m \in Outcomes(p, line, f, d) :
          /\ ~m.full
          /\ f # "none" => m.fired
          /\ current_state' = m.cs
          /\ pair_state' = m.ps
          /\ last_qr_codes' = m.last
          /\ db' = m.db
          /\ lcd_timer_generations' = m.gen
          /\ lcd_timer_threads' = m.th
          /\ tasks' = m.tasks
          /\ last_render' = m.render
          /\ now' = m.now
          /\ ev' = [EventOf(m) EXCEPT !.fault = f]
          /\ loops' = [loops EXCEPT ![p] = LoopAfter(@, m)]
    /\ nscan' = nscan + 1
    /\ UNCHANGED <<config, stop_event, main_pc, rc, scope, qr_input, extracted>>

\* The label in current_state[port]["worker_lcd"] after the scan: looked up again by
\* the worker handler and by start_lcd_timer, left alone by everything else.
LabelAfter(p) ==
    IF ev'.handler = "worker" \/ lcd_timer_threads'[p] = nscan'
    THEN get_worker_lcd(current_state'[p].worker_cd)
    ELSE worker_lcd[p]

Scan(p, line, f, d, bound) ==
    /\ ScanCore(p, line, f, d, bound)
    /\ worker_lcd' = [worker_lcd EXCEPT ![p] = LabelAfter(p)]
    /\ UNCHANGED <<port_lock, opening, writing, snapshot>>

ScanLines == {"END*END*END", "X", "Y", "S", "rework", "PA001", "WCD1", "ID:A01-F1"}

ProcessData ==
    /\ \E p \in Ports, line \in ScanLines, f \in Faults : Scan(p, line, f, 1, MaxScans)
    /\ UNCHANGED wireVars

Next == ProcessData

Spec == Init /\ [][Next]_vars

(***************************************************************************)
(* Scans while the display fails: every scan is handled with one display   *)
(* call failing, with all of them failing, or with none.                   *)
(***************************************************************************)
DisplayFaults == DisplayPoints \cup {"none", "display_down"}

DisplayLines == ScanLines \cup {"WCD2", "??"}

DisplayScan ==
    /\ \E p \in Ports, line \in DisplayLines, f \in DisplayFaults :
          Scan(p, line, f, 1, MaxDisplayScans)
    /\ UNCHANGED wireVars

NextDisplay == DisplayScan

SpecDisplay == Init /\ [][NextDisplay]_vars

(***************************************************************************)
(* Worker pairing on one port: worker scans at chosen gaps, with the       *)
(* instruction scans that open and close records.                          *)
(***************************************************************************)
PairLines == {"WCD1", "WCD2", "WCD3", "X", "ID:A01-F1", "END*END*END"}

PairGaps == {1, PAIR_WINDOW_SECONDS, PAIR_WINDOW_SECONDS + 1}

PairScan ==
    /\ \E line \in PairLines, d \in PairGaps : Scan("p1", line, "none", d, MaxPairScans)
    /\ UNCHANGED wireVars

NextPair == PairScan

SpecPair == InitConfigured /\ [][NextPair]_vars

(***************************************************************************)
(* The display timer task (lcd_timer_updater), step by step, on one port.  *)
(***************************************************************************)
TimerLines == {"X", "Y", "ID:A01-F1", "END*END*END"}

TimerScan ==
    /\ \E line \in TimerLines : Scan("p1", line, "none", 1, MaxTimerOps)
    /\ UNCHANGED wireVars

Step(t, u) ==
    /\ tasks' = (tasks \ {t}) \cup u
    /\ UNCHANGED <<current_state, pair_state, last_qr_codes, db, now, lcd_timer_generations,
                   lcd_timer_threads, config, ev, nscan>>
    /\ UNCHANGED <<extractVars, loopVars, wireVars, rc, lockVars, scope>>

\* Top of the loop: leave when the stop event is set or the generation has moved on.
TimerCheck ==
    \E t \in tasks :
        /\ t.pc = "wait"
        /\ IF t.stop \/ lcd_timer_generations[t.port] # t.gen
           THEN Step(t, {})
           ELSE Step(t, {[t EXCEPT !.pc = "snap"]})
        /\ UNCHANGED last_render

\* The snapshot under port_lock; what is shown has changed, so a render follows.
TimerSnapshot ==
    \E t \in tasks :
        /\ t.pc = "snap"
        /\ Step(t, {[t EXCEPT !.pc = "render"]})
        /\ UNCHANGED last_render

\* The snapshot shows nothing new: no render, on to the wait.
TimerSkip ==
    \E t \in tasks :
        /\ t.pc = "snap"
        /\ Step(t, {[t EXCEPT !.pc = "wait"]})
        /\ UNCHANGED last_render

\* _lcd_update_full(...), then stop_event.wait(1.0).
TimerRender ==
    \E t \in tasks :
        /\ t.pc = "render"
        /\ Step(t, {[t EXCEPT !.pc = "wait"]})
        /\ last_render' = [port |-> t.port, id |-> t.id, gen |-> t.gen,
                           live |-> lcd_timer_generations[t.port],
                           newest |-> lcd_timer_threads[t.port], stop |-> t.stop]

NextTimer == TimerScan \/ TimerCheck \/ TimerSnapshot \/ TimerSkip \/ TimerRender

SpecTimer == InitConfigured /\ [][NextTimer]_vars

(***************************************************************************)
(* Shutdown: the ingestion loops of the ports, the timer tasks and         *)
(* main_program's stop sequence, as threads that interleave.  Threads that  *)
(* are scheduled fairly reach their next statement; main_program's bounded  *)
(* joins of the ingestion threads are taken to succeed, and the daemon      *)
(* threads are followed as if the process went on after main_program has    *)
(* returned, which gives them all the time there is to leave their loops.   *)
(***************************************************************************)
ShutdownLines == {"X", "END*END*END"}

\* while not stop_event.is_set(): ... -- the check at the top of read_from_port's
\* loop: the thread leaves, or reads a chunk that holds at least one line.
LoopPoll(p) ==
    /\ loops[p] = "poll"
    /\ loops' = [loops EXCEPT ![p] = IF stop_event THEN "exited" ELSE "frames"]
    /\ UNCHANGED <<sessionVars, extractVars, wireVars, rc, lockVars, scope, stop_event, main_pc>>

\* One line of the chunk dispatched (the inner while holds further lines or not).
ShutdownScan ==
    /\ \E p \in Ports, line \in ShutdownLines :
          loops[p] = "frames" /\ Scan(p, line, "none", 1, MaxShutdownScans)
    /\ UNCHANGED wireVars

\* No "\n" is left in the buffer: back to the top of the loop.
FramesDone(p) ==
    /\ loops[p] = "frames"
    /\ loops' = [loops EXCEPT ![p] = "poll"]
    /\ UNCHANGED <<sessionVars, extractVars, wireVars, rc, lockVars, scope, stop_event, main_pc>>

\* signal_handler: stop_event.set()
Shutdown ==
    /\ ~stop_event
    /\ stop_event' = TRUE
    /\ UNCHANGED <<sessionVars, extractVars, wireVars, rc, lockVars, scope, loops, main_pc>>

\* stop_all_lcd_timers, for one port: set the registered task's stop event, join it
\* (bounded), render once, forget the thread and its event.
StopOne(m, p) == UNION { _lcd_update_full([x EXCEPT !.th[p] = 0]) : x \in SetAndJoin(m, p) }

RECURSIVE StopPorts(_, _)
StopPorts(S, ports) ==
    IF ports = {} THEN S
    ELSE LET p == CHOOSE q \in ports : TRUE
         IN  StopPorts(UNION { StopOne(x, p) : x \in S }, ports \ {p})

\* stop_all_lcd_timers
stop_all_lcd_timers(m) == StopPorts({m}, Ports)

\* main_program after stop_event.wait() returns: stop_event.set() and
\* stop_all_lcd_timers(final_render=True).
MainStopTimers ==
    /\ main_pc = "wait"
    /\ stop_event
    /\ \E m \in stop_all_lcd_timers(Machine("", NoLine, "none", 0)) :
          /\ tasks' = m.tasks
          /\ lcd_timer_threads' = m.th
          /\ last_render' = m.render
    /\ connection_status' = [p \in Ports |-> FALSE]
    /\ main_pc' = "join"
    /\ UNCHANGED <<current_state, pair_state, last_qr_codes, db, now, lcd_timer_generations,
                   config, ev, nscan>>
    /\ UNCHANGED <<extractVars, received, buffer, dispatched, read_errors, rc, lockVars, scope, loops,
                   stop_event>>

\* for t in threads: t.join(timeout=3.0); then main_program returns.
MainJoin ==
    /\ main_pc = "join"
    /\ \A p \in Ports : loops[p] = "exited"
    /\ main_pc' = "done"
    /\ UNCHANGED <<sessionVars, extractVars, wireVars, rc, lockVars, scope, loops, stop_event>>

Tick == TimerCheck \/ TimerSnapshot \/ TimerSkip \/ TimerRender

\* A step of the timer task with identity i.
TickOf(i) == Tick /\ \E t \in tasks : t.id = i /\ t \notin tasks'

NextShutdown ==
    \/ \E p \in Ports : LoopPoll(p)
    \/ ShutdownScan
    \/ \E p \in Ports : FramesDone(p)
    \/ Shutdown
    \/ MainStopTimers
    \/ MainJoin
    \/ Tick

\* Every thread that can take a step eventually takes one.
FairShutdown ==
    /\ \A p \in Ports : WF_vars(LoopPoll(p)) /\ WF_vars(FramesDone(p))
    /\ \A i \in 1..MaxShutdownScans : WF_vars(TickOf(i))
    /\ WF_vars(MainStopTimers) /\ WF_vars(MainJoin)

SpecShutdown == InitConfigured /\ [][NextShutdown]_vars /\ FairShutdown

(***************************************************************************)
(* reconnect, called for one port: the recursion unrolled, one open        *)
(* attempt or one sleep per step.  Times are in seconds.                   *)
(***************************************************************************)
BACKOFF_CAP == 30

DEFAULT_MAX_RETRY == 3

DEFAULT_BACKOFF == 1

RetryArgs == 0..MaxRetryArg

BackoffArgs == {DEFAULT_BACKOFF, 2, 16, BACKOFF_CAP}

\* What open_serial_port does: returns the handle, or raises.
OpenOutcomes == {"ok", "SerialException", "ValueError", "OtherError"}

\* A call reconnect(port, retry=0, max_retry=n, backoff_sec=b), with or without
\* serial settings for the port.
InitReconnect ==
    /\ InitSession /\ config = WithDefaults
    /\ InitExtractIdle /\ InitLoops /\ InitWire /\ InitLockIdle /\ InitScopeIdle
    /\ \E n \in RetryArgs, b \in BackoffArgs, s \in BOOLEAN :
          rc = [NoReconnect EXCEPT !.pc = "try", !.max_retry = n, !.backoff_sec = b,
                                   !.settings = s]

Min(a, b) == IF a <= b THEN a ELSE b

\* show_fatal_error(oled_manager, "E07", hold=True); return False -- the function
\* has no parameter `hold`, so the call raises TypeError inside the except clause
\* and the return is not reached; the TypeError leaves every level of the recursion.
show_fatal_error(r) == [r EXCEPT !.pc = "raised", !.result = "TypeError"]

\* The try block of reconnect and its except clauses, for one outcome of the open.
reconnect(r, outcome) ==
    IF ~r.settings THEN [r EXCEPT !.pc = "returned", !.result = "False"]
    ELSE LET opened == [r EXCEPT !.opens = @ + 1]
         IN  CASE outcome = "ok" -> [opened EXCEPT !.pc = "returned", !.result = "True"]
               [] outcome \in {"ValueError", "OtherError"} ->
                      [opened EXCEPT !.pc = "returned", !.result = "False"]
               [] outcome = "SerialException" ->
                      LET failed == [opened EXCEPT !.serial_errors = @ + 1]
                      IN  IF r.retry < r.max_retry
                          THEN [failed EXCEPT !.pc = "sleep"]
                          ELSE show_fatal_error(failed)

ReconnectTry ==
    /\ rc.pc = "try"
    /\ \E outcome \in OpenOutcomes : rc' = reconnect(rc, outcome)
    /\ UNCHANGED <<sessionVars, extractVars, loopVars, wireVars, lockVars, scope>>

\* time.sleep(backoff_sec); return reconnect(..., retry=retry + 1,
\*                                          backoff_sec=min(backoff_sec * 2, 30.0))
ReconnectSleep ==
    /\ rc.pc = "sleep"
    /\ rc' = [rc EXCEPT !.pc = "try",
                        !.slept = Append(@, rc.backoff_sec),
                        !.retry = @ + 1,
                        !.backoff_sec = Min(@ * 2, BACKOFF_CAP)]
    /\ UNCHANGED <<sessionVars, extractVars, loopVars, wireVars, lockVars, scope>>

NextReconnect == ReconnectTry \/ ReconnectSleep

SpecReconnect == InitReconnect /\ [][NextReconnect]_vars

(***************************************************************************)
(* The serial line of one port: bytes arrive and are read in chunks,       *)
(* decoded chunk by chunk, split into lines and dispatched.                *)
(***************************************************************************)
\* Bytes of the line: "A" is 0x41 (a letter, and a valid second byte of a
\* double-byte Shift-JIS character), "L" is 0x83 (a first byte of a double-byte
\* character), then line feed, carriage return and space.
LF == "\n"

CR == "\r"

Bytes == {"A", "L", LF, CR, " "}

LeadBytes == {"L"}

TrailBytes == {"A"}

\* bytes.decode("shift_jis", errors="ignore"): a first byte and a second byte give
\* one character (written "LA"); a first byte followed by anything else, or by
\* nothing, is dropped; every other byte is the character of the same name.
RECURSIVE Decode(_)
Decode(b) ==
    IF b = <<>> THEN <<>>
    ELSE IF b[1] \in LeadBytes
         THEN IF Len(b) >= 2 /\ b[2] \in TrailBytes
              THEN <<"LA">> \o Decode(SubSeq(b, 3, Len(b)))
              ELSE Decode(Tail(b))
         ELSE <<b[1]>> \o Decode(Tail(b))

HasLine(t) == \E i \in 1..Len(t) : t[i] = LF

\* buffer.split("\n", 1)
FirstLF(t) == CHOOSE i \in 1..Len(t) : t[i] = LF /\ \A j \in 1..(i - 1) : t[j] # LF

RECURSIVE LStrip(_, _)
LStrip(t, chars) ==
    IF t # <<>> /\ t[1] \in chars THEN LStrip(Tail(t), chars) ELSE t

RECURSIVE RStrip(_, _)
RStrip(t, chars) ==
    IF t # <<>> /\ t[Len(t)] \in chars THEN RStrip(SubSeq(t, 1, Len(t) - 1), chars) ELSE t

\* str.strip(chars)
Strip(t, chars) == RStrip(LStrip(t, chars), chars)

\* The characters str.strip() removes, among those of the model.
Whitespace == {" ", CR, LF}

\* line.strip("\r").strip()
Payload(t) == Strip(Strip(t, {CR}), Whitespace)

\* The characters of every payload the dispatcher knows.
TextTable == [line \in AllLines |-> Text(line)]

\* The payload as the dispatcher classifies it: a payload of the model, or else a
\* text of no known format.
NameOf(t) ==
    IF \E l \in AllLines : TextTable[l] = t
    THEN CHOOSE l \in AllLines : TextTable[l] = t
    ELSE "??"

Chunks == UNION { [1..n -> Bytes] : n \in 1..MaxChunk }

\* n = ser.in_waiting; data_chunk = ser.read(n).decode(...); buffer += data_chunk
ReadChunk ==
    /\ loops["p1"] = "poll"
    /\ ~stop_event
    /\ connection_status["p1"]
    /\ \E c \in Chunks :
          /\ Len(received["p1"]) + Len(c) <= MaxStream
          /\ received' = [received EXCEPT !["p1"] = @ \o c]
          /\ buffer' = [buffer EXCEPT !["p1"] = @ \o Decode(c)]
    /\ loops' = [loops EXCEPT !["p1"] = "frames"]
    /\ UNCHANGED <<sessionVars, extractVars, rc, lockVars, scope, stop_event, main_pc, dispatched,
                   connection_status, read_errors>>

\* One turn of the inner while for a line that is not empty: split, strip, show,
\* dispatch.
DispatchFrame ==
    /\ loops["p1"] = "frames"
    /\ HasLine(buffer["p1"])
    /\ LET i == FirstLF(buffer["p1"])
           line == Payload(SubSeq(buffer["p1"], 1, i - 1))
       IN  /\ line # <<>>
           /\ buffer' = [buffer EXCEPT !["p1"] = SubSeq(@, i + 1, Len(@))]
           /\ dispatched' = [dispatched EXCEPT !["p1"] = Append(@, line)]
           /\ Scan("p1", NameOf(line), "none", 1, MaxReadScans)
    /\ UNCHANGED <<received, connection_status, read_errors>>

\* One turn of the inner while for an empty line: if not line: continue
SkipEmpty ==
    /\ loops["p1"] = "frames"
    /\ HasLine(buffer["p1"])
    /\ LET i == FirstLF(buffer["p1"])
       IN  /\ Payload(SubSeq(buffer["p1"], 1, i - 1)) = <<>>
           /\ buffer' = [buffer EXCEPT !["p1"] = SubSeq(@, i + 1, Len(@))]
    /\ UNCHANGED <<sessionVars, extractVars, rc, lockVars, scope, loopVars, received, dispatched,
                   connection_status, read_errors>>

\* while "\n" in buffer: no line is left.
ReadFramesDone == ~HasLine(buffer["p1"]) /\ FramesDone("p1")

NextRead == ReadChunk \/ DispatchFrame \/ SkipEmpty \/ ReadFramesDone

SpecRead == InitConfigured /\ [][NextRead]_vars

(***************************************************************************)
(* The serial line of one port when reads fail.                            *)
(***************************************************************************)
\* ser.in_waiting or ser.read(n) raises: the outer except of read_from_port logs
\* the exception, waits 0.5 s on the stop event and goes back to the top of the
\* loop, with the handle it was started with.
ReadFails ==
    /\ loops["p1"] = "poll"
    /\ ~stop_event
    /\ connection_status["p1"]
    /\ read_errors["p1"] < MaxReadErrors
    /\ read_errors' = [read_errors EXCEPT !["p1"] = @ + 1]
    /\ UNCHANGED <<sessionVars, extractVars, rc, lockVars, scope, loopVars, received, buffer, dispatched,
                   connection_status>>

NextLink == ReadChunk \/ DispatchFrame \/ SkipEmpty \/ ReadFramesDone \/ ReadFails

SpecLink == InitConfigured /\ [][NextLink]_vars

(***************************************************************************)
(* The fallback handler on its own.  No payload reaches rule 8 of the      *)
(* dispatcher (extract_info raises before it returns a falsy value), so    *)
(* handle_error_qr is called here as rule 8 calls it: in the session scope *)
(* of a line, after the line was shown, on a payload of no known format.   *)
(* The scans before it set up the session.                                 *)
(***************************************************************************)
MalformedLines == {"S", "D", "??"}

FallbackLines == {"X", "rework", "PA001", "WCD1", "ID:A01-F1", "END*END*END"}

FallbackScan ==
    /\ \E line \in FallbackLines : Scan("p1", line, "none", 1, MaxFallbackScans)
    /\ UNCHANGED wireVars

FallbackOutcomes(p, line, f) ==
    { ScopeExit(x) : x \in Then(display_message(Machine(p, line, f, 1)), handle_error_qr) }

\* process_data's rule 8: return handle_error_qr(...).
FallbackCall ==
    /\ nscan < MaxFallbackScans
    /\ \E line \in MalformedLines, f \in {"none", "show_error"} :
         \E m \in FallbackOutcomes("p1", line, f) :
            /\ f # "none" => m.fired
            /\ current_state' = m.cs
            /\ pair_state' = m.ps
            /\ last_qr_codes' = m.last
            /\ db' = m.db
            /\ lcd_timer_generations' = m.gen
            /\ lcd_timer_threads' = m.th
            /\ tasks' = m.tasks
            /\ last_render' = m.render
            /\ now' = m.now
            /\ ev' = [EventOf(m) EXCEPT !.fault = f]
            /\ loops' = [loops EXCEPT !["p1"] = LoopAfter(@, m)]
    /\ nscan' = nscan + 1
    /\ UNCHANGED <<config, stop_event, main_pc, rc, lockVars, scope, qr_input, extracted>>
    /\ UNCHANGED wireVars

NextFallback == FallbackScan \/ FallbackCall

SpecFallback == InitConfigured /\ [][NextFallback]_vars

(***************************************************************************)
(* The Field Extractor on its own: extract_info called on codes of the      *)
(* lengths around the layout's end and the column limit, with production    *)
(* dates that are and are not days of the calendar.                         *)
(***************************************************************************)
DigitSeq == <<"0", "1", "2", "3", "4", "5", "6", "7", "8", "9">>

\* A code of n characters whose character at offset i is the digit (i * stride) % 10,
\* with the production date d at offset 52.
PatternText(stride, d, n) ==
    [i \in 1..n |-> IF i \in 53..58 THEN d[i - 52] ELSE DigitSeq[(((i - 1) * stride) % 10) + 1]]

Strides == {1, 3, 7}

Dates ==
    {GoodDate, BadDate,
     <<"2", "4", "0", "2", "2", "9">>, <<"9", "9", "1", "2", "3", "1">>,
     <<"2", "5", "1", "3", "0", "1">>, <<"2", "5", "0", "0", "1", "0">>,
     <<"2", "A", "1", "0", "1", "0">>, <<"2", "3", "0", "2", "2", "9">>}

\* The end of the last range of field_mappings: the shortest code with every field.
RequiredLength ==
    CHOOSE n \in 0..QR_CD_MAX :
        /\ \A i \in 1..Len(FieldNames) : \A j \in 1..Len(field_mappings(FieldNames[i])) :
              field_mappings(FieldNames[i])[j][1] + field_mappings(FieldNames[i])[j][2] <= n
        /\ \E i \in 1..Len(FieldNames) : \E j \in 1..Len(field_mappings(FieldNames[i])) :
              field_mappings(FieldNames[i])[j][1] + field_mappings(FieldNames[i])[j][2] = n

Lengths == {FUNCTIONAL_QR_MAX + 1, RequiredLength - 1, RequiredLength, RequiredLength + 1,
            QR_CD_MAX, QR_CD_MAX + 1}

Codes == {PatternText(k, d, n) : k \in Strides, d \in Dates, n \in Lengths}

InitExtract ==
    /\ InitSession /\ config = WithDefaults
    /\ InitLoops /\ InitWire /\ InitReconnectIdle /\ InitLockIdle /\ InitScopeIdle
    /\ qr_input \in Codes /\ extracted = NotCalled

\* extract_info(qr_input)
Extract ==
    /\ ~extracted.called
    /\ extracted' = [called |-> TRUE, raised |-> extract_info(qr_input).raised,
                     data |-> extract_info(qr_input).data]
    /\ UNCHANGED qr_input
    /\ UNCHANGED <<sessionVars, loopVars, wireVars, rc, lockVars, scope>>

NextExtract == Extract

SpecExtract == InitExtract /\ [][NextExtract]_vars

(***************************************************************************)
(* port_lock: main_program opens the second port while the first port's    *)
(* thread handles scans and its timer task copies the session.  The worker *)
(* handler is taken write by write.                                        *)
(***************************************************************************)
LockLines == {"WCD1", "WCD2", "X", "END*END*END"}

\* main_program has opened p1 and started its thread; it is about to call
\* open_serial_port for p2.
InitLock ==
    /\ InitSession /\ config = WithDefaults
    /\ InitExtractIdle /\ InitReconnectIdle /\ InitScopeIdle
    /\ received = [p \in Ports |-> <<>>]
    /\ buffer = [p \in Ports |-> <<>>]
    /\ dispatched = [p \in Ports |-> <<>>]
    /\ connection_status = [p \in Ports |-> p = "p1"]
    /\ read_errors = [p \in Ports |-> 0]
    /\ loops = [p \in Ports |-> IF p = "p1" THEN "poll" ELSE "unstarted"]
    /\ stop_event = FALSE
    /\ main_pc = "open"
    /\ port_lock = NoHolder
    /\ opening = [port |-> "p2", pc |-> "call", attempt |-> 0]
    /\ worker_lcd = [p \in Ports |-> get_worker_lcd(current_state[p].worker_cd)]
    /\ writing = [p \in Ports |-> FALSE]
    /\ snapshot = NoSnapshot

\* A scan that is not a worker scan, handled in one step.
LockScan ==
    /\ \E line \in LockLines :
          /\ ~ClassTable[line].worker
          /\ Scan("p1", line, "none", 1, MaxLockScans)
    /\ UNCHANGED wireVars

\* handle_worker_qr up to its writes of pair_state and of worker_cd / worker2_cd.
WorkerWrites ==
    /\ \E line \in LockLines :
          /\ ClassTable[line].worker
          /\ ScanCore("p1", line, "none", 1, MaxLockScans)
    /\ writing' = [writing EXCEPT !["p1"] = TRUE]
    /\ UNCHANGED <<port_lock, opening, worker_lcd, snapshot, wireVars>>

\* handle_worker_qr from its lookup of the label to its end.
WorkerLabels ==
    /\ writing["p1"]
    /\ worker_lcd' = [worker_lcd EXCEPT !["p1"] = get_worker_lcd(current_state["p1"].worker_cd)]
    /\ writing' = [writing EXCEPT !["p1"] = FALSE]
    /\ UNCHANGED <<sessionVars, extractVars, loopVars, wireVars, rc, scope, port_lock,
                   opening, snapshot>>

\* with port_lock: state_snapshot = current_state[port].copy(); ...
LockSnapshot ==
    \E t \in tasks :
        /\ t.pc = "snap"
        /\ port_lock = NoHolder
        /\ snapshot' = [port |-> t.port,
                        worker_cd |-> current_state[t.port].worker_cd,
                        worker_lcd |-> worker_lcd[t.port],
                        torn |-> writing[t.port]]
        /\ \E pc \in {"render", "wait"} : tasks' = (tasks \ {t}) \cup {[t EXCEPT !.pc = pc]}
        /\ UNCHANGED <<current_state, pair_state, last_qr_codes, db, now,
                       lcd_timer_generations, lcd_timer_threads, last_render, config, ev,
                       nscan>>
        /\ UNCHANGED <<extractVars, loopVars, wireVars, rc, scope, port_lock, opening,
                       worker_lcd, writing>>

\* open_serial_port: with port_lock:
OpenLock ==
    /\ opening.pc = "call"
    /\ port_lock = NoHolder
    /\ port_lock' = "main"
    /\ opening' = [opening EXCEPT !.pc = "try"]
    /\ UNCHANGED <<sessionVars, extractVars, loopVars, wireVars, rc, scope, worker_lcd,
                   writing, snapshot>>

\* One attempt of open_serial_port, port_lock held.  The device opens: return ser
\* leaves the with block, main_program marks the port connected and starts its
\* thread.  It does not: a sleep follows when an attempt is left, else the
\* exception leaves the with block and main_program marks the port disconnected.
OpenTry ==
    /\ opening.pc = "try"
    /\ \E outcome \in {"opened", "SerialException"} :
          CASE outcome = "opened" ->
                 /\ opening' = [opening EXCEPT !.pc = "opened"]
                 /\ port_lock' = NoHolder
                 /\ connection_status' = [connection_status EXCEPT ![opening.port] = TRUE]
                 /\ loops' = [loops EXCEPT ![opening.port] = "poll"]
            [] opening.attempt < OPEN_ATTEMPTS - 1 ->
                 /\ opening' = [opening EXCEPT !.pc = "sleep"]
                 /\ UNCHANGED <<port_lock, connection_status, loops>>
            [] OTHER ->
                 /\ opening' = [opening EXCEPT !.pc = "raised"]
                 /\ port_lock' = NoHolder
                 /\ connection_status' = [connection_status EXCEPT ![opening.port] = FALSE]
                 /\ UNCHANGED loops
    /\ UNCHANGED <<sessionVars, extractVars, rc, scope, stop_event, main_pc, received,
                   buffer, dispatched, read_errors, worker_lcd, writing, snapshot>>

\* time.sleep(2**attempt); continue
OpenSleep ==
    /\ opening.pc = "sleep"
    /\ opening' = [opening EXCEPT !.pc = "try", !.attempt = @ + 1]
    /\ UNCHANGED <<sessionVars, extractVars, loopVars, wireVars, rc, scope, port_lock,
                   worker_lcd, writing, snapshot>>

NextLock ==
    \/ LockScan \/ WorkerWrites \/ WorkerLabels
    \/ TimerCheck \/ LockSnapshot \/ TimerRender
    \/ OpenLock \/ OpenTry \/ OpenSleep

SpecLock == InitLock /\ [][NextLock]_vars

(***************************************************************************)
(* session_scope, step by step.                                            *)
(***************************************************************************)
ScopeOutcomes == {"completes", "raises"}

InitScope ==
    /\ InitSession /\ config = WithDefaults
    /\ InitExtractIdle /\ InitLoops /\ InitWire /\ InitReconnectIdle /\ InitLockIdle
    /\ scope \in { ScopeCall(k, body, commit) :
                      k \in 0..MaxFactoryFailures, body \in ScopeOutcomes,
                      commit \in ScopeOutcomes }

session_scope_acquire_RetriesAfterLast(s) ==
    LET n == s.attempts + 1
    IN  IF s.attempts < s.failures
        THEN IF s.attempt < s.max_retries
             THEN [s EXCEPT !.attempts = n, !.pc = "sleep"]
             ELSE [s EXCEPT !.attempts = n, !.pc = "done", !.raised = TRUE]
        ELSE [s EXCEPT !.attempts = n, !.pc = "body"]

\* One turn of for attempt in range(max_retries): SessionFactory() gives a session
\* (break), or raises: a sleep follows when an attempt is left, else the raise.
session_scope_acquire(s) ==
    LET n == s.attempts + 1
    IN  IF s.attempts < s.failures
        THEN IF s.attempt < s.max_retries - 1
             THEN [s EXCEPT !.attempts = n, !.pc = "sleep"]
             ELSE [s EXCEPT !.attempts = n, !.pc = "done", !.raised = TRUE]
        ELSE [s EXCEPT !.attempts = n, !.pc = "body"]

ScopeStep(s) ==
    /\ scope' = s
    /\ UNCHANGED <<sessionVars, extractVars, loopVars, wireVars, rc, lockVars>>

ScopeAcquire == scope.pc = "acquire" /\ ScopeStep(session_scope_acquire(scope))

\* time.sleep(2**attempt), then the next turn of the loop
ScopeSleep ==
    /\ scope.pc = "sleep"
    /\ ScopeStep([scope EXCEPT !.pc = "acquire", !.attempt = @ + 1,
                               !.slept = Append(@, 2 ^ scope.attempt)])

\* yield session: the body of the with statement
ScopeBody ==
    /\ scope.pc = "body"
    /\ ScopeStep([scope EXCEPT !.bodies = @ + 1,
                               !.pc = IF scope.body = "completes" THEN "commit"
                                      ELSE "rollback"])

\* session.commit()
ScopeCommit ==
    /\ scope.pc = "commit"
    /\ ScopeStep(IF scope.commit = "completes"
                 THEN [scope EXCEPT !.commits = @ + 1, !.committed = TRUE, !.pc = "close"]
                 ELSE [scope EXCEPT !.commits = @ + 1, !.pc = "rollback"])

\* except Exception: session.rollback(); raise
ScopeRollback ==
    /\ scope.pc = "rollback"
    /\ ScopeStep([scope EXCEPT !.rolled_back = TRUE, !.raised = TRUE, !.pc = "close"])

\* finally: session.close()
ScopeClose ==
    /\ scope.pc = "close"
    /\ ScopeStep([scope EXCEPT !.closed = TRUE, !.pc = "done"])

NextScope ==
    ScopeAcquire \/ ScopeSleep \/ ScopeBody \/ ScopeCommit \/ ScopeRollback \/ ScopeClose

SpecScope == InitScope /\ [][NextScope]_vars

(***************************************************************************)
(* Two ports: the ingestion loops of both handle scans in any order while  *)
(* the timer tasks of both run.                                            *)
(***************************************************************************)
PortLines == {"X", "Y", "WCD1", "END*END*END"}

PortScan ==
    /\ \E p \in Ports, line \in PortLines : Scan(p, line, "none", 1, MaxPortScans)
    /\ UNCHANGED wireVars

NextPorts == PortScan \/ TimerCheck \/ TimerSnapshot \/ TimerSkip \/ TimerRender

SpecPorts == InitConfigured /\ [][NextPorts]_vars

(***************************************************************************)
(* Properties.                                                             *)
(***************************************************************************)
Open(row) == row.end_dt = NoTime

Scanned == ev.port # ""

\* The step is a scan (every step of the three specifications that changes nscan).
IsScan == nscan' = nscan + 1

OpenHandlers == {"first_open", "switch", "indirect"}

\* C1: the record store never holds two records with end_time null for the same
\* (worker, process) pair.
C1_OneOpenPerWorkerProcess ==
    \A i, j \in 1..Len(db) :
        (i # j /\ Open(db[i]) /\ Open(db[j]))
            => ~(db[i].worker_cd = db[j].worker_cd /\ db[i].process_cd = db[j].process_cd)

\* C2: after a scan of END*END*END, or of the port's last accepted instruction, the
\* port's status is ENDED and its start_time is null -- whether or not a last
\* accepted instruction was recorded.
C2_EndAlwaysEnds ==
    (Scanned /\ (ev.line = END_QR \/ ev.line = ev.prev))
        => /\ current_state[ev.port].status = STATUS_ENDED
           /\ current_state[ev.port].start_time = NoTime

\* C3: when a standard instruction code was accepted by a scan (an open without an
\* exception) and the next scan on that port is the same code, the second scan is
\* handled by the end-or-same handler, inserts no record and leaves status ENDED.
C3_RepeatIsEndOrSame ==
    [][ (/\ IsScan
         /\ ev.handler \in {"first_open", "switch"}
         /\ ev.exc = ""
         /\ ev'.port = ev.port
         /\ ev'.line = ev.line)
        => (/\ ev'.handler = "end_or_same"
            /\ ev'.inserted = 0
            /\ current_state'[ev.port].status = STATUS_ENDED) ]_vars

\* The second of two scans of X on a port: end-or-same closed the record of the first.
C3_Witness ==
    /\ nscan = 2
    /\ ev.line = "X" /\ ev.prev = "X"
    /\ ev.handler = "end_or_same"
    /\ ev.inserted = 0 /\ ev.closed = 1
    /\ current_state[ev.port].status = STATUS_ENDED

C5_SupersededTaskNeverRenders ==
    (last_render.id # 0 /\ last_render.newest # 0) => last_render.id = last_render.newest

Solo(session, ps, w) ==
    session.worker_cd = w /\ session.worker2_cd = NoCode /\ ~ps.pair_mode

Pair(session, ps, w1, w2) ==
    session.worker_cd = w1 /\ session.worker2_cd = w2 /\ ps.pair_mode

C7_ThirdReplacesPartner ==
    [][ (IsScan /\ ClassTable[ev'.line].worker)
        => LET p == ev'.port
               old == pair_state[p]
               w == WorkerOf(Text(ev'.line))
           IN  (/\ Len(old.recent_workers) = 2
                /\ old.recent_workers[1] # old.recent_workers[2]
                /\ w \notin {old.recent_workers[1], old.recent_workers[2]}
                /\ now' - old.last_worker_ts <= 5)
                    => Pair(current_state'[p], pair_state'[p], old.recent_workers[1], w) ]_vars

\* C8: between scans, on every port, start_time is set exactly when status is WORKING.
C8_StartTimeIffWorking ==
    \A p \in Ports :
        (current_state[p].start_time # NoTime) <=> (current_state[p].status = STATUS_WORKING)

\* An end-or-same scan has just taken a WORKING port to ENDED.
C8_Witness ==
    /\ ev.handler = "end_or_same" /\ ev.prev_status = STATUS_WORKING
    /\ current_state[ev.port].status = STATUS_ENDED
    /\ current_state[ev.port].start_time = NoTime
    /\ \E p \in Ports : current_state[p].status = STATUS_WORKING

\* C9: an open in pair mode (two different workers) inserts two records, and the
\* records of one open agree on instruction, process and start_time and are open
\* together or closed together.
C9_PairRecordsSynchronized ==
    /\ (/\ Scanned
        /\ ev.handler \in OpenHandlers /\ ev.exc = ""
        /\ pair_state[ev.port].pair_mode
        /\ current_state[ev.port].worker2_cd # NoCode
        /\ current_state[ev.port].worker2_cd # current_state[ev.port].worker_cd)
            => ev.inserted = 2
    /\ \A i, j \in 1..Len(db) :
          (i # j /\ db[i].scan = db[j].scan /\ db[i].worker_cd # db[j].worker_cd)
              => /\ db[i].qr_cd = db[j].qr_cd
                 /\ db[i].process_cd = db[j].process_cd
                 /\ db[i].start_dt = db[j].start_dt
                 /\ Open(db[i]) <=> Open(db[j])

\* The handler the priority rules name for a line, given the port's last accepted
\* instruction.
RuleOf(line, prev) ==
    IF line = END_QR \/ line = prev THEN "end_or_same"
    ELSE IF line \in DOMAIN status_mapping THEN "status"
    ELSE IF ClassTable[line].process THEN "process"
    ELSE IF ClassTable[line].worker THEN "worker"
    ELSE IF ClassTable[line].indirect THEN "indirect"
    ELSE IF ExtractTable[line].raised = "" THEN (IF prev # NoLine THEN "switch" ELSE "first_open")
    ELSE "fallback"

\* C10: every scan runs the one handler its first matching rule names; a line that
\* matches no earlier rule runs the fallback handler.
C10_ExactlyOneHandler == Scanned => ev.handler = RuleOf(ev.line, ev.prev)

\* The characters of qr_input at the offsets of a field, range after range.
SubstringsAt(q, key) ==
    LET r == field_mappings(key)
        part(j) == SubSeq(q, r[j][1] + 1, r[j][1] + r[j][2])
    IN  IF Len(r) = 1 THEN part(1) ELSE part(1) \o part(2)

RoundTrip ==
    /\ extracted.raised = ""
    /\ Len(extracted.data) = Len(FieldNames)
    /\ \A i \in 1..Len(FieldNames) : extracted.data[i] = SubstringsAt(qr_input, FieldNames[i])

PersistencePoints == {"insert", "insert2", "close", "commit_close", "commit_insert",
                      "commit_status"}

\* C13: a scan during which an insert, a close or a commit failed in the store has
\* appended an audit line for its payload by the time the handler is left.
C13_FailureIsAudited ==
    (Scanned /\ ev.fault \in PersistencePoints) => ev.audit >= 1


\* C12: when the handler of a line raises on one port, the exception is caught in
\* that port's ingestion loop: the loop stays alive (it can dispatch its next frame),
\* and the loop and the session state of every other port are as before the line.
C12_HandlerRaiseIsContained ==
    [][(IsScan /\ ev'.exc # "") =>
          /\ loops'[ev'.port] \in {"poll", "frames"}
          /\ \A q \in Ports \ {ev'.port} :
                /\ loops'[q] = loops[q]
                /\ current_state'[q] = current_state[q]
                /\ pair_state'[q] = pair_state[q]
                /\ last_qr_codes'[q] = last_qr_codes[q]]_vars

\* A line whose handler raised on a port, followed on the same port by a line that
\* was dispatched and opened a record.
C12_Witness ==
    /\ Scanned
    /\ ev.prev_exc # ""
    /\ ev.exc = ""
    /\ ev.handler \in OpenHandlers
    /\ ev.inserted >= 1


C15_ShutdownStopsEveryThread ==
    stop_event ~> ((\A p \in Ports : loops[p] = "exited") /\ tasks = {})


\* C16: when every open attempt of a reconnect call fails with a serial error, the
\* call has slept at most max_retry times, each delay is at most 30 seconds and
\* twice the one before (capped), and the call ends by returning False.
C16_ReconnectGivesUpWithFalse ==
    (rc.pc \in {"returned", "raised"} /\ rc.settings /\ rc.serial_errors = rc.opens) =>
        /\ Len(rc.slept) <= rc.max_retry
        /\ \A i \in 1..Len(rc.slept) : rc.slept[i] <= BACKOFF_CAP
        /\ \A i \in 1..(Len(rc.slept) - 1) :
              rc.slept[i + 1] = Min(rc.slept[i] * 2, BACKOFF_CAP)
        /\ rc.result = "False"


\* The payloads of the complete lines of a text, in order, empty ones dropped.
RECURSIVE FramesOf(_)
FramesOf(t) ==
    IF ~HasLine(t) THEN <<>>
    ELSE LET i == FirstLF(t)
             line == Payload(SubSeq(t, 1, i - 1))
         IN  (IF line = <<>> THEN <<>> ELSE <<line>>) \o FramesOf(SubSeq(t, i + 1, Len(t)))

RECURSIVE AfterLastLine(_)
AfterLastLine(t) == IF ~HasLine(t) THEN t ELSE AfterLastLine(SubSeq(t, FirstLF(t) + 1, Len(t)))

\* C17: however the bytes of a port were split into chunks, once the loop has no
\* line left to dispatch the payloads dispatched are the payloads of the lines of
\* the whole stream, each once and in order, and the buffer holds what follows
\* the last line feed.
C17_FramesOfTheStream ==
    loops["p1"] = "poll" =>
        /\ dispatched["p1"] = FramesOf(Decode(received["p1"]))
        /\ buffer["p1"] = AfterLastLine(Decode(received["p1"]))


\* C18: on every port, at most one timer task is inside a render call at any time.
C18_OneRenderPerPort ==
    \A p \in Ports : Cardinality({t \in tasks : t.port = p /\ t.pc = "render"}) <= 1


\* The generation counter of a port is not lowered by a step.
GenerationKept(p) == lcd_timer_generations'[p] >= lcd_timer_generations[p]

\* The tasks a step starts: those whose id no task had before.
StartedBy == {t \in tasks' : \A u \in tasks : u.id # t.id}

\* C19: for every port the timer generation counter never decreases over the
\* start_lcd_timer and stop_lcd_timer calls, and a started task is given a
\* generation strictly greater than that of every task started earlier for its port.
C19_GenerationOnlyGrows ==
    [][ /\ \A p \in Ports : GenerationKept(p)
        /\ \A t \in StartedBy : \A u \in tasks : u.port = t.port => u.gen < t.gen ]_vars


\* C20: after every worker scan on a port, recent_workers has between 1 and 3
\* entries, pair_mode equals (length of recent_workers >= 2), and the second
\* worker is set if and only if pair_mode is true.
C20_PairStateAfterWorkerScan ==
    ev.handler = "worker"
        => LET ps == pair_state[ev.port]
               n == Len(ps.recent_workers)
           IN  /\ n \in 1..RECENT_WORKERS_KEPT
               /\ ps.pair_mode = (n >= 2)
               /\ (current_state[ev.port].worker2_cd # NoCode) = ps.pair_mode

\* A worker scan in pair mode that fills the window with three workers.
C20_Witness ==
    /\ ev.handler = "worker" /\ ev.prev_pair
    /\ Len(pair_state[ev.port].recent_workers) = RECENT_WORKERS_KEPT
    /\ pair_state[ev.port].pair_mode
    /\ current_state[ev.port].worker2_cd # NoCode


\* The open records of a port.
OpenOf(rows, p) == {i \in 1..Len(rows) : rows[i].port = p /\ Open(rows[i])}

\* C21: on a status scan (no store failure): if a record is open for the port, that
\* record's status label is set to the scanned label and the pending override is
\* not set; if no record is open for the port, no record is modified and the
\* pending override is set to the label.
C21_StatusScanDirectOrPending ==
    [][ (IsScan /\ ev'.handler = "status" /\ ev'.fault = "none")
        => LET p == ev'.port
               label == status_mapping[ev'.line]
           IN  IF OpenOf(db, p) # {}
               THEN /\ \E i \in OpenOf(db, p) : db'[i].status = label
                    /\ current_state'[p].rework_status = NoLabel
               ELSE /\ db' = db
                    /\ current_state'[p].rework_status = label ]_vars


\* The records a scan step inserts.
InsertedBy == {i \in 1..Len(db') : db'[i].scan = nscan'}

\* C22: a pending status override is the status of the records inserted by the next
\* first-open or switch scan on the port and is cleared by that insert; with no
\* override pending the inserted records have status "operation".
C22_OverrideIsOneShot ==
    [][ (IsScan /\ ev'.handler \in {"first_open", "switch"} /\ InsertedBy # {})
        => LET p == ev'.port
               pending == current_state[p].rework_status
           IN  /\ \A i \in InsertedBy :
                     db'[i].status = IF pending # NoLabel THEN pending ELSE "operation"
               /\ current_state'[p].rework_status = NoLabel ]_vars

\* rework scanned with nothing open, then X (inserted with the override), then Y
\* (inserted as "operation").
C22_Witness ==
    /\ nscan = 3 /\ ev.handler = "switch" /\ ev.line = "Y"
    /\ current_state[ev.port].rework_status = NoLabel
    /\ \E i, j \in 1..Len(db) :
          /\ db[i].qr_cd = "X" /\ db[i].scan = 2 /\ db[i].status = status_mapping["rework"]
          /\ db[j].qr_cd = "Y" /\ db[j].scan = 3 /\ db[j].status = "operation"
          /\ db[i].port = ev.port /\ db[j].port = ev.port


\* C23: handling an indirect-work scan leaves the port's last accepted instruction
\* unchanged.
C23_IndirectKeepsLastAccepted ==
    [][ (IsScan /\ ev'.handler = "indirect" /\ ev'.fault = "none")
        => last_qr_codes'[ev'.port] = last_qr_codes[ev'.port] ]_vars


FrameHandlers == {"status", "process", "worker", "fallback"}

\* C24: the status, process, worker and fallback handlers leave the port's last
\* accepted instruction unchanged, and the fallback handler also leaves the pending
\* status override unchanged.
C24_HandlersKeepLastAccepted ==
    [][ (IsScan /\ ev'.handler \in FrameHandlers)
        => /\ last_qr_codes' = last_qr_codes
           /\ ev'.handler = "fallback"
                => current_state'[ev'.port].rework_status
                       = current_state[ev'.port].rework_status ]_vars

\* The fallback handler has run while an instruction was accepted and an override
\* was pending; both are still there.
C24_Witness ==
    /\ ev.handler = "fallback"
    /\ ev.prev # NoLine /\ last_qr_codes[ev.port] = ev.prev
    /\ current_state[ev.port].rework_status # NoLabel


\* C25: a process scan and a worker scan never insert or close a record and never
\* change the session's status or start_time; a process scan changes nothing of the
\* session but the process code (the active instruction code is left as it was).
C25_ProcessAndWorkerScansFrame ==
    [][ (IsScan /\ ev'.handler \in {"process", "worker"})
        => LET p == ev'.port
           IN  /\ db' = db
               /\ current_state'[p].status = current_state[p].status
               /\ current_state'[p].start_time = current_state[p].start_time
               /\ ev'.handler = "process"
                    => current_state'[p]
                         = [current_state[p] EXCEPT !.process_cd = current_state'[p].process_cd]
       ]_vars


\* C26: a malformed payload (no pattern matches and the field extraction fails) is
\* routed to the fallback handler, which persists one error-status record and
\* returns; no exception leaves process_data.
C26_MalformedGoesToFallback ==
    (Scanned /\ ev.line \in MalformedLines)
        => /\ ev.handler = "fallback"
           /\ ev.inserted = 1
           /\ ev.exc = ""


CloseFaults == {"close", "commit_close", "db_down"}

ClosedBy == {i \in 1..Len(db) : Open(db[i]) /\ ~Open(db'[i])}

\* C28: a switch scan from instruction X to a different valid instruction Y, with
\* no store failure, closes the open records of X and then inserts the records of
\* Y; afterwards no record of X opened by this port is open, the session is WORKING
\* and the last accepted instruction is Y.
C28_SwitchClosesThenOpens ==
    [][ (IsScan /\ ev'.handler = "switch" /\ ev'.fault = "none")
        => LET p == ev'.port
           IN  /\ \A i \in 1..Len(db') :
                     (db'[i].port = p /\ db'[i].qr_cd = ev'.prev) => ~Open(db'[i])
               /\ InsertedBy # {}
               /\ \A j \in InsertedBy : db'[j].qr_cd = ev'.line /\ Open(db'[j])
               /\ \A i \in ClosedBy, j \in InsertedBy : db'[i].end_dt <= db'[j].start_dt
               /\ current_state'[p].status = STATUS_WORKING
               /\ last_qr_codes'[p] = ev'.line ]_vars


\* C29: after an end-or-same closure the port has no last accepted instruction, so
\* the next valid instruction scan on the port (the same code included) is handled
\* as a first-open and inserts a new record.
C29_EndClearsLastAccepted ==
    [][ /\ (IsScan /\ ev'.handler = "end_or_same" /\ ev'.fault = "none")
              => last_qr_codes'[ev'.port] = NoLine
        /\ (/\ IsScan
            /\ ev.handler = "end_or_same" /\ ev.fault = "none"
            /\ ev'.port = ev.port /\ ev'.fault = "none"
            /\ ev'.line \in {"X", "Y"})
              => (ev'.handler = "first_open" /\ ev'.inserted >= 1) ]_vars


\* C30: when a read on a connected port fails, the ingestion loop leaves the
\* connected state and invokes the reconnect procedure.
C30_ReadFailureStartsReconnect ==
    [][ \A p \in Ports :
          (connection_status[p] /\ read_errors'[p] > read_errors[p])
              => (~connection_status'[p] /\ rc'.pc = "try") ]_vars

\* C31: a snapshot a timer task copied under port_lock never shows a partially
\* applied handler update: the worker label it holds is the label of the worker
\* code it holds.
C31_SnapshotNeverTorn ==
    snapshot.port # "" => snapshot.worker_lcd = get_worker_lcd(snapshot.worker_cd)

\* C32: while open_serial_port is in an attempt or sleeps between two attempts for
\* one port, port_lock is free for the timer task of another port that stands at
\* its snapshot.
C32_OpenRetryLeavesLockFree ==
    \A t \in tasks :
        (t.pc = "snap" /\ t.port # opening.port /\ opening.pc \in {"try", "sleep"})
            => port_lock = NoHolder

ScopeAcquired == scope.attempts > scope.failures

\* What C33 says of the acquisition: at most 5 attempts; after the fifth failure the
\* call raises and the body has not run.
ScopeAcquisition ==
    /\ scope.attempts <= 5
    /\ (scope.pc = "done" /\ ~ScopeAcquired) =>
          /\ scope.attempts = 5 /\ scope.raised
          /\ scope.bodies = 0 /\ scope.commits = 0 /\ ~scope.closed

\* C33 as stated: ... once a unit of work is acquired the body has run exactly once,
\* the work is committed iff the body completed, rolled back and re-raised
\* otherwise, and closed in both cases.
C33_CommittedIffBodyCompletes ==
    /\ ScopeAcquisition
    /\ (scope.pc = "done" /\ ScopeAcquired) =>
          /\ scope.bodies = 1
          /\ scope.committed <=> scope.body = "completes"
          /\ ~scope.committed => (scope.rolled_back /\ scope.raised)
          /\ scope.closed

\* C33, amended: ... once a unit of work is acquired the body has run exactly once;
\* the commit is attempted iff the body completed, and the work is committed iff
\* the body completed and the commit did not raise; otherwise it is rolled back and
\* the exception re-raised; it is closed in every case.
C33_CommittedIffBodyAndCommitComplete ==
    /\ ScopeAcquisition
    /\ (scope.pc = "done" /\ ScopeAcquired) =>
          /\ scope.bodies = 1
          /\ scope.commits = (IF scope.body = "completes" THEN 1 ELSE 0)
          /\ scope.committed <=> (scope.body = "completes" /\ scope.commit = "completes")
          /\ scope.committed => (~scope.rolled_back /\ ~scope.raised)
          /\ ~scope.committed => (scope.rolled_back /\ scope.raised)
          /\ scope.closed

\* A session given at the fifth attempt, a body that completed, a commit that raised.
C33_Witness ==
    /\ scope.pc = "done" /\ scope.attempts = 5 /\ ScopeAcquired
    /\ scope.body = "completes" /\ scope.commit = "raises"
    /\ scope.rolled_back /\ scope.closed

\* C34: a close made on behalf of a port sets end_time only on records opened by
\* that port; the open records of every other port stay as they were.
C34_CloseStaysOnOwnPort ==
    [][ (IsScan /\ ev'.handler \in {"end_or_same", "switch"}) =>
            \A i \in 1..Len(db) : db[i].port # ev'.port => db'[i] = db[i] ]_vars

\* C35: after an End-or-same scan handled without a persistence error, no record
\* opened by that port is still open.
C35_EndLeavesNothingOpen ==
    [][ (IsScan /\ ev'.handler = "end_or_same" /\ ev'.exc = "" /\ ev'.fault = "none")
            => OpenOf(db', ev'.port) = {} ]_vars

\* C36: the scan that closes a record changes nothing of it but its end_time (and
\* the duration that follows from it): its worker and process ids stay those it
\* was inserted with.
C36_CloseChangesOnlyEndTime ==
    [][ IsScan => \A i \in ClosedBy : db'[i] = [db[i] EXCEPT !.end_dt = db'[i].end_dt] ]_vars

\* C37: whenever a port is in pair mode, its worker_id and its worker2_id differ.
C37_PairHasTwoWorkers ==
    \A p \in Ports : pair_state[p].pair_mode =>
        current_state[p].worker_cd # current_state[p].worker2_cd

\* C38: one scan inserts at most one record per worker, also when a step fails
\* after the insert.
C38_OneInsertPerWorker ==
    [][ IsScan => \A i, j \in InsertedBy : db'[i].worker_cd = db'[j].worker_cd => i = j ]_vars

\* C39: when the insert or the commit of a first-open or switch scan fails, the
\* pending status override and the last accepted instruction are those of before
\* the scan, and the session is not WORKING.
C39_FailedOpenKeepsOverride ==
    [][ (IsScan /\ ev'.handler \in {"first_open", "switch"}
                /\ ev'.fault \in {"insert", "commit_insert"} /\ InsertedBy = {}) =>
            LET p == ev'.port
            IN  /\ current_state'[p].rework_status = current_state[p].rework_status
                /\ last_qr_codes'[p] = last_qr_codes[p]
                /\ current_state'[p].status # STATUS_WORKING ]_vars

TasksOf(set, p) == {t \in set : t.port = p}

\* C40: a scan handled on one port leaves every other port's session, pair state,
\* last accepted instruction, timer generation and timer task as they were.
C40_ScanLeavesOtherPortsAlone ==
    [][ IsScan => \A q \in Ports \ {ev'.port} :
                      /\ current_state'[q] = current_state[q]
                      /\ worker_lcd'[q] = worker_lcd[q]
                      /\ pair_state'[q] = pair_state[q]
                      /\ last_qr_codes'[q] = last_qr_codes[q]
                      /\ lcd_timer_generations'[q] = lcd_timer_generations[q]
                      /\ lcd_timer_threads'[q] = lcd_timer_threads[q]
                      /\ TasksOf(tasks', q) = TasksOf(tasks, q) ]_vars

\* A scan on p1 has stopped p1's timer while p2 is at work and its timer task is
\* past its checks.
C40_Witness ==
    /\ ev.port = "p1" /\ ev.handler = "end_or_same" /\ ev.closed > 0
    /\ current_state["p2"].status = STATUS_WORKING
    /\ lcd_timer_generations["p2"] > 0
    /\ \E t \in tasks : t.port = "p2" /\ t.id = lcd_timer_threads["p2"] /\ t.pc # "wait"

====
